---- MODULE Spec2Model ----
(***************************************************************************)
(* Front-end components of the sales-rep management module:               *)
(*   - VisitAnalyticsDashboard (static/src/js/visit_analytics_dashboard.js)*)
(*   - GPSInteractiveMaps      (static/src/js/daily_visit_tracker.js)      *)
(*   - RealTimeNotifications   (unnamed/part_001)                          *)
(*   - DailyVisitTracker       (static/src/js/daily_visit_tracker.js)      *)
(*   - InteractiveCharts       (unnamed/part_000)                          *)
(* Each component owns its state; no component reads another's state.      *)
(*                                                                         *)
(* Numbers that the code rounds to 2 decimals (Math.round(x * 100) / 100)  *)
(* are held as integers in hundredths: 123.33 is 12333.                    *)
(***************************************************************************)
EXTENDS Integers, Sequences, FiniteSets, TLC

VARIABLES
    \* ---- VisitAnalyticsDashboard ----
    analytics,      \* state.analytics: sequence of rows
    kpis,           \* state.kpis
    kpiPc,          \* position of the calculateKPIs call: "ready" | "done"
    kpiThrown,      \* TRUE iff an exception left calculateKPIs
    dash,           \* the rest of the dashboard's state (record, see DashInit)
    dashPc,         \* lifecycle: "constructed" | "starting" | "started" | "mounted"
    initPending,    \* loads of loadInitialData that have not settled
    requests,       \* get_analytics_data calls awaiting the gateway
    issued,         \* number of get_analytics_data calls issued so far
    lastAnswer,     \* the answer with rows that arrived last (id 0: none yet)
    newestAnswer,   \* of the calls answered with rows, the one issued last
    gateway,        \* what the gateway may answer: the values of analytics.data, and
                    \* whether the filter and real-time calls may succeed, may fail
    \* ---- GPSInteractiveMaps ----
    trackInput,     \* the gps.tracking rows handed to validateTrackingData
    trackingData,   \* state.trackingData
    trackPc,        \* position of the validateTrackingData call: "ready" | "done"
    maps,           \* the map component's state (record, see MapsInit)
    mapsCalls,      \* loadInitialData calls whose four loads have not all settled
    \* ---- RealTimeNotifications ----
    conn,           \* the component's connection state (record, see ConnInit)
    initPc,         \* position of initializeComponent
    loadsInFlight,  \* periodic loadNotifications calls awaiting the gateway
    connects,       \* bus 'connect' events delivered so far
    busDown,        \* TRUE from a bus 'disconnect' event to the next 'connect'
    settings,       \* state.settings
    backend,        \* the server: the user's settings, whether that call fails, the
                    \* notification rows, the messages it may push
    localStore,     \* local storage entry sales_rep_notification_settings
    inbox,          \* notifications, unreadCount, what was shown, auto-mark timers
    writes,         \* ids of the orm.write calls of markAsRead awaiting the gateway
    bulkWrites,     \* the id sets of the orm.write calls of markAllAsRead awaiting it
    debounce,       \* this.debounceTimeout is pending
    unmounted,      \* cleanup has run
    ranAfter,       \* the callback of the component that ran last after cleanup
    pushed,         \* number of bus messages delivered so far
    lastPush,       \* the bus message delivered last
    \* ---- DailyVisitTracker ----
    trk,            \* the tracker's state and timers (record, see TrackerInit)
    trkPc,          \* lifecycle: "constructed" | "starting" | "started" | "mounted" | "unmounted"
    trkPending,     \* loads of loadInitialData that have not settled
    trkCalls,       \* gateway calls of the tracker awaiting their answer
    progVisit,      \* the visit record handed to calculateVisitProgress
    progNow,        \* the clock (minute of the day) when it is called
    progress,       \* what calculateVisitProgress returned
    progPc,         \* position of the calculateVisitProgress call: "ready" | "done"
    timeStatus,     \* what getVisitTimeStatus returned ("none": not called)
    \* ---- InteractiveCharts ----
    chartLib,       \* the global Chart: "none" | "lenient" | "strict"
    chartInstances, \* this.chartInstances: canvas id -> chart (0: no entry)
    liveCharts,     \* the charts created and not destroyed
    chartsMade      \* number of charts constructed so far

kpiVars == <<analytics, kpis, kpiPc, kpiThrown>>

flowVars == <<dash, dashPc, initPending, requests, issued, lastAnswer, newestAnswer,
             gateway>>

dashVars == <<kpiVars, flowVars>>

mapVars == <<trackInput, trackingData, trackPc>>

gpsVars == <<maps, mapsCalls>>

pushVars == <<inbox, writes, bulkWrites, pushed, lastPush>>

prefVars == <<settings, backend, localStore>>

lifeVars == <<debounce, unmounted, ranAfter>>

notifVars == <<conn, initPc, loadsInFlight, connects, busDown, pushVars, prefVars, lifeVars>>

trackerVars == <<trk, trkPc, trkPending, trkCalls>>

progressVars == <<progVisit, progNow, progress, progPc, timeStatus>>

chartVars == <<chartLib, chartInstances, liveCharts, chartsMade>>

vars == <<kpiVars, flowVars, mapVars, gpsVars, notifVars, trackerVars, progressVars, chartVars>>

-----------------------------------------------------------------------------
(* Bounds of the model *)

MaxRows == 2        \* longest generic sequence of analytics rows
MaxVal == 2         \* largest generic value of a numeric row field
MaxPoints == 2      \* longest sequence of tracking points
MaxConnects == 1    \* bus 'connect' events delivered in one run
MaxRequests == 3    \* get_analytics_data calls issued in one run
MaxInFlight == 1    \* periodic loadNotifications calls in flight at once
MaxPushes == 2      \* bus messages delivered in one run
MaxBulkWrites == 1  \* orm.write calls of markAllAsRead in flight at once
MaxMapCalls == 1    \* loadInitialData calls of the map component in flight at once
MaxElapsed == 2     \* largest elapsedTime counted
MaxTimers == 2      \* elapsed-time intervals running at once
MaxVisitCalls == 1  \* gateway calls of the tracker in flight at once
MaxMinutes == 2     \* latest generic minute of the day
MaxCharts == 3      \* charts constructed in one run

-----------------------------------------------------------------------------
(* Values *)

\* A field that is absent from a row (JavaScript undefined); present values are >= 0.
Missing == -1

\* An element of the rows array that is null: reading a property of it throws.
NullRow == [isNull |-> TRUE]

\* The field used as it is, without "|| 0".
OrZeroRaw(x) == x

\* x || 0 for a numeric field: undefined and 0 are falsy.
OrZero(x) == IF x = Missing THEN 0 ELSE x

\* Math.round(num / den) for den > 0: nearest integer, ties towards +infinity
\* (floor(x + 1/2)), also for negative num. The arithmetic is exact; IEEE doubles
\* give the same result except on exact ties with denominators such as 160,
\* which the values drawn here do not produce.
RoundDiv(num, den) == (2 * num + den) \div (2 * den)

RECURSIVE SumField(_, _)
\* rows.reduce((sum, item) => sum + (item[f] || 0), 0)
SumField(rows, f) ==
    IF rows = <<>> THEN 0
    ELSE OrZero(Head(rows)[f]) + SumField(Tail(rows), f)

FieldVals == {Missing} \cup (0..MaxVal)

\* Generic analytics rows: every total_visits, each other field absent, 0 or large.
GenericRows ==
    [total_visits: FieldVals, target_visits: {Missing, 0, MaxVal},
     total_revenue: {Missing, MaxVal}, completion_rate: {Missing, MaxVal}]

MkRow(v, t, r, c) ==
    [total_visits |-> v, target_visits |-> t, total_revenue |-> r, completion_rate |-> c]

RECURSIVE SeqsUpTo(_, _)
\* All sequences over S of length at most n.
SeqsUpTo(S, n) ==
    IF n = 0 THEN {<<>>}
    ELSE LET shorter == SeqsUpTo(S, n - 1)
         IN  shorter \cup {Append(s, x) : s \in {t \in shorter : Len(t) = n - 1}, x \in S}

\* The inputs named by the specification's test cases.
ExampleSingle == <<MkRow(10, 20, 100, 50)>>
ExampleDoubling == <<MkRow(10, 0, 0, 0), MkRow(20, 0, 0, 0)>>
ExampleFromZero == <<MkRow(0, 0, 0, 0), MkRow(5, 0, 0, 0)>>
ExampleThree == <<MkRow(100, 100, 0, 0), MkRow(120, 100, 0, 0), MkRow(150, 100, 0, 0)>>
ExampleThirds == <<MkRow(3, 7, 1, 1), MkRow(1, Missing, Missing, 0), MkRow(4, 0, 2, 1)>>
ExampleNullLast == <<MkRow(10, 20, 100, 50), NullRow>>

ExampleInputs ==
    {ExampleSingle, ExampleDoubling, ExampleFromZero, ExampleThree, ExampleThirds,
     ExampleNullLast}

KpiInputs(n) == SeqsUpTo(GenericRows \cup {NullRow}, n) \cup ExampleInputs

-----------------------------------------------------------------------------
(* VisitAnalyticsDashboard.calculateKPIs *)

\* state.kpis as setup() builds it.
InitialKpis ==
    [totalVisits |-> 0, avgCompletionRate |-> 0, totalRevenue |-> 0,
     avgRevenueAchievement |-> 0, avgVisitDuration |-> 0, customerSatisfaction |-> 0,
     conversionRate |-> 0, travelEfficiency |-> 0, growthRate |-> 0,
     targetAchievement |-> 0]

\* The summary calculateKPIs stores for no rows and in its catch block.
ZeroKpis ==
    [totalVisits |-> 0, avgCompletionRate |-> 0, totalRevenue |-> 0,
     avgRevenueAchievement |-> 0, growthRate |-> 0, targetAchievement |-> 0]

\* A reduce callback reads item.total_visits: a null element throws TypeError.
Throws(rows) == \E i \in 1..Len(rows) : rows[i] = NullRow

\* The percentage change swapped: first minus last.
GrowthRateSwapped(rows) ==
    LET firstPeriod == OrZero(rows[1].total_visits)
        lastPeriod == OrZero(rows[Len(rows)].total_visits)
    IN  IF Len(rows) >= 2 /\ firstPeriod > 0
        THEN RoundDiv((firstPeriod - lastPeriod) * 100 * 100, firstPeriod)
        ELSE 0

\* growthRate, rounded: Math.round(growthRate * 100) / 100, in hundredths.
GrowthRate(rows) ==
    LET firstPeriod == OrZero(rows[1].total_visits)
        lastPeriod == OrZero(rows[Len(rows)].total_visits)
    IN  IF Len(rows) >= 2 /\ firstPeriod > 0
        THEN RoundDiv((lastPeriod - firstPeriod) * 100 * 100, firstPeriod)
        ELSE 0

\* Math.floor in place of Math.round.
TargetAchievementFloor(totalVisits, totalTarget) ==
    IF totalTarget > 0 THEN (totalVisits * 100 * 100) \div totalTarget ELSE 0

\* targetAchievement, rounded: Math.round(targetAchievement * 100) / 100, in hundredths.
TargetAchievement(totalVisits, totalTarget) ==
    IF totalTarget > 0 THEN RoundDiv(totalVisits * 100 * 100, totalTarget) ELSE 0

\* The body of the try block, for rows that do not throw.
ComputeKpis(rows) ==
    LET totalVisits == SumField(rows, "total_visits")
        totalRevenue == SumField(rows, "total_revenue")
        sumRate == SumField(rows, "completion_rate")
        totalTarget == SumField(rows, "target_visits")
    IN  [totalVisits |-> totalVisits,
         avgCompletionRate |-> RoundDiv(sumRate * 100, Len(rows)),
         totalRevenue |-> totalRevenue,
         avgRevenueAchievement |->
             IF totalRevenue > 0
             THEN RoundDiv(totalRevenue * 100 * 10, totalRevenue * 12)
             ELSE 0,
         growthRate |-> GrowthRate(rows),
         targetAchievement |-> TargetAchievement(totalVisits, totalTarget)]

\* A catch block that keeps what the rows before the failure gave.
calculateKPIsPartial(rows) ==
    LET ok == SelectSeq(rows, LAMBDA r : r # NullRow)
    IN  [kpis |-> IF ok = <<>> THEN ZeroKpis ELSE ComputeKpis(ok), thrown |-> FALSE]

\* calculateKPIs: the kpis it stores and whether an exception leaves it.
calculateKPIs(rows) ==
    IF rows = <<>> THEN [kpis |-> ZeroKpis, thrown |-> FALSE]
    ELSE IF Throws(rows) THEN [kpis |-> ZeroKpis, thrown |-> FALSE]
    ELSE [kpis |-> ComputeKpis(rows), thrown |-> FALSE]

-----------------------------------------------------------------------------
(* VisitAnalyticsDashboard: loading analytics *)

PeriodTypes == {"weekly", "monthly"}

\* Days, as the date inputs order them.
Dates == {1, 2}

\* The values of analytics.data.
GatewayData == {<<>>, ExampleSingle, ExampleDoubling}

\* The fields of state that setup() initialises (kpis and analytics apart).
\*   loading          state.loading
\*   error            state.error: "none", "range" (invalid dates) or "gateway"
\*   periodType, dateFrom, dateTo   the filters
\*   charts           the rows the chart instances were created from; <<>>: no instance
\*   note             the notification shown last ("none": none yet)
\*   filtersLoading   state.filters.isLoading
\*   filtersLoaded    state.filters holds the gateway's lists
\*   rtConnected      state.realTimeData.isConnected
\*   rtLoaded         state.realTimeData holds the gateway's snapshot
\*   refreshInterval  this.refreshInterval is running
\*   refreshing       the loadInitialData in progress was called by refreshData
\*   loads            how each load of the last loadInitialData ended:
\*                    "none" | "pending" | "ok" | "failed"
DashInit ==
    [loading |-> TRUE, error |-> "none", periodType |-> "monthly", dateFrom |-> 1,
     dateTo |-> 2, charts |-> <<>>, note |-> "none", filtersLoading |-> FALSE,
     filtersLoaded |-> FALSE, rtConnected |-> TRUE, rtLoaded |-> FALSE,
     refreshInterval |-> FALSE, refreshing |-> FALSE,
     loads |-> [analytics |-> "none", filters |-> "none", realtime |-> "none"]]

\* The notification a caller of loadAnalytics shows when it fails.
FailureNote(caller) ==
    CASE caller = "initial" -> "Failed to load analytics data"
      [] caller = "period" -> "Failed to update period type"
      [] caller = "dateFrom" -> "Failed to update start date"
      [] caller = "dateTo" -> "Failed to update end date"

\* Before any answer has arrived.
NoAnswer == [id |-> 0, rows |-> <<>>, period_type |-> "none"]

\* A response is stored only when it answers the latest call issued.
AcceptsLatestOnly(id, latest) == id = latest

\* loadAnalytics stores every response it receives, whichever call it answers.
AcceptsResponse(id, latest) == TRUE

\* renderCharts: nothing while loading or without rows; else the old instances
\* are destroyed and the charts created from state.analytics (a chart whose
\* data mapping throws is not created).
renderCharts(d, rows) ==
    IF d.loading \/ rows = <<>> THEN d
    ELSE [d EXCEPT !.charts = IF Throws(rows) THEN <<>> ELSE rows]

\* loadInitialData without its finally block.
FinishInitialNoFinally(d, pending) ==
    IF pending = {}
    THEN [d EXCEPT !.note = IF d.refreshing
                            THEN "Dashboard data refreshed successfully"
                            ELSE @,
                   !.refreshing = FALSE]
    ELSE d

\* loadInitialData's finally block, once its three loads have settled; refreshData
\* then shows its note.
FinishInitial(d, pending) ==
    IF pending = {}
    THEN [d EXCEPT !.loading = FALSE,
                   !.note = IF d.refreshing
                            THEN "Dashboard data refreshed successfully"
                            ELSE @,
                   !.refreshing = FALSE]
    ELSE d

\* loadInitialData up to its await: the three loads start; loadAnalytics issues
\* its call, or throws on an invalid date range, which the .catch of
\* loadInitialData turns into a note.
StartInitialData(d) ==
    LET started == [d EXCEPT !.loading = TRUE, !.error = "none", !.filtersLoading = TRUE]
    IN  /\ issued < MaxRequests
        /\ IF d.dateFrom > d.dateTo
           THEN /\ dash' = [started EXCEPT
                                !.error = "range",
                                !.note = FailureNote("initial"),
                                !.loads = [analytics |-> "failed", filters |-> "pending",
                                           realtime |-> "pending"]]
                /\ initPending' = {"filters", "realtime"}
                /\ UNCHANGED <<requests, issued>>
           ELSE /\ dash' = [started EXCEPT
                                !.loads = [analytics |-> "pending", filters |-> "pending",
                                           realtime |-> "pending"]]
                /\ initPending' = {"analytics", "filters", "realtime"}
                /\ issued' = issued + 1
                /\ requests' = requests \cup
                      {[id |-> issued + 1, caller |-> "initial",
                        period_type |-> d.periodType,
                        date_from |-> d.dateFrom, date_to |-> d.dateTo]}

\* onWillStart: loadInitialData starts its three loads; loadAnalytics issues
\* its call with the default filters (the default date range is valid).
WillStart ==
    /\ dashPc = "constructed"
    /\ dashPc' = "starting"
    /\ StartInitialData(dash)
    /\ UNCHANGED <<kpiVars, lastAnswer, newestAnswer, gateway, mapVars, gpsVars, progressVars, chartVars, notifVars, trackerVars>>

\* loadFilters settles: its three searchReads, joined by Promise.all.
FiltersSettle ==
    /\ "filters" \in initPending
    /\ \E ok \in gateway.loadsOk :
          dash' = FinishInitial([dash EXCEPT !.filtersLoaded = ok \/ @,
                                             !.filtersLoading = FALSE,
                                             !.loads.filters = IF ok THEN "ok" ELSE "failed"],
                                initPending \ {"filters"})
    /\ initPending' = initPending \ {"filters"}
    /\ dashPc' = IF initPending' = {} THEN "started" ELSE dashPc
    /\ UNCHANGED <<kpiVars, requests, issued, lastAnswer, newestAnswer,
                   gateway, mapVars, gpsVars, progressVars, chartVars, notifVars, trackerVars>>

\* loadRealTimeData settles.
RealTimeSettles ==
    /\ "realtime" \in initPending
    /\ \E ok \in gateway.loadsOk :
          dash' = FinishInitial([dash EXCEPT !.rtConnected = ok, !.rtLoaded = ok \/ @,
                                             !.loads.realtime = IF ok THEN "ok" ELSE "failed"],
                                initPending \ {"realtime"})
    /\ initPending' = initPending \ {"realtime"}
    /\ dashPc' = IF initPending' = {} THEN "started" ELSE dashPc
    /\ UNCHANGED <<kpiVars, requests, issued, lastAnswer, newestAnswer,
                   gateway, mapVars, gpsVars, progressVars, chartVars, notifVars, trackerVars>>

\* onMounted: initializeDashboard starts the real-time refresh interval.
DashMount ==
    /\ dashPc = "started"
    /\ dashPc' = "mounted"
    /\ dash' = [dash EXCEPT !.refreshInterval = TRUE]
    /\ UNCHANGED <<kpiVars, initPending, requests, issued, lastAnswer, newestAnswer,
                   gateway,
                   mapVars, gpsVars, progressVars, chartVars, notifVars, trackerVars>>

\* loadAnalytics without its date range check.
StartLoadAnalyticsUnchecked(d, caller) ==
    /\ issued < MaxRequests
    /\ dash' = [d EXCEPT !.loading = TRUE]
    /\ issued' = issued + 1
    /\ requests' = requests \cup
          {[id |-> issued + 1, caller |-> caller, period_type |-> d.periodType,
            date_from |-> d.dateFrom, date_to |-> d.dateTo]}
    /\ UNCHANGED <<kpiVars, dashPc, initPending, lastAnswer, newestAnswer, gateway,
                   mapVars, gpsVars, progressVars, chartVars, notifVars, trackerVars>>

\* loadAnalytics up to its await, called by a filter handler: loading is set,
\* an invalid date range throws (the handler shows its note), a valid one
\* issues the call with the filters of this moment.
StartLoadAnalytics(d, caller) ==
    /\ issued < MaxRequests
    /\ IF d.dateFrom > d.dateTo
       THEN /\ dash' = [d EXCEPT !.loading = TRUE, !.error = "range",
                                 !.note = FailureNote(caller)]
            /\ UNCHANGED <<requests, issued>>
       ELSE /\ dash' = [d EXCEPT !.loading = TRUE]
            /\ issued' = issued + 1
            /\ requests' = requests \cup
                  {[id |-> issued + 1, caller |-> caller, period_type |-> d.periodType,
                    date_from |-> d.dateFrom, date_to |-> d.dateTo]}
    /\ UNCHANGED <<kpiVars, dashPc, initPending, lastAnswer, newestAnswer, gateway,
                   mapVars, gpsVars, progressVars, chartVars, notifVars, trackerVars>>

onPeriodTypeChange ==
    /\ dashPc = "mounted"
    /\ \E value \in PeriodTypes :
          StartLoadAnalytics([dash EXCEPT !.periodType = value], "period")

\* The date handlers check the range themselves before loadAnalytics.
onDateFromChange ==
    /\ dashPc = "mounted"
    /\ \E value \in Dates :
          LET d == [dash EXCEPT !.dateFrom = value]
          IN  IF d.dateFrom > d.dateTo
              THEN /\ dash' = [d EXCEPT !.note = "Start date cannot be after end date"]
                   /\ UNCHANGED <<kpiVars, dashPc, initPending, requests, issued, lastAnswer,
                                  newestAnswer, gateway, mapVars, gpsVars, progressVars, chartVars, notifVars, trackerVars>>
              ELSE StartLoadAnalytics(d, "dateFrom")

onDateToChange ==
    /\ dashPc = "mounted"
    /\ \E value \in Dates :
          LET d == [dash EXCEPT !.dateTo = value]
          IN  IF d.dateFrom > d.dateTo
              THEN /\ dash' = [d EXCEPT !.note = "Start date cannot be after end date"]
                   /\ UNCHANGED <<kpiVars, dashPc, initPending, requests, issued, lastAnswer,
                                  newestAnswer, gateway, mapVars, gpsVars, progressVars, chartVars, notifVars, trackerVars>>
              ELSE StartLoadAnalytics(d, "dateTo")

\* refreshData: loadInitialData again (one at a time).
refreshData ==
    /\ dashPc = "mounted"
    /\ initPending = {}
    /\ StartInitialData([dash EXCEPT !.refreshing = TRUE])
    /\ UNCHANGED <<kpiVars, dashPc, lastAnswer, newestAnswer, gateway, mapVars, gpsVars, progressVars, chartVars, notifVars,
                   trackerVars>>

\* The gateway answers a get_analytics_data call with rows: loadAnalytics
\* stores them, recomputes the KPIs and calls renderCharts; a filter handler
\* then calls renderCharts again; loadInitialData counts the load as settled.
AnalyticsArrive ==
    \E r \in requests, rows \in gateway.rows :
        LET stores == AcceptsResponse(r.id, issued)
            shown == IF stores THEN rows ELSE analytics
            pending == IF r.caller = "initial" THEN initPending \ {"analytics"}
                       ELSE initPending
            rendered == renderCharts(renderCharts(dash, shown), shown)
        IN  /\ requests' = requests \ {r}
            /\ lastAnswer' = [id |-> r.id, rows |-> rows, period_type |-> r.period_type]
            /\ newestAnswer' = IF r.id > newestAnswer.id THEN lastAnswer' ELSE newestAnswer
            /\ analytics' = shown
            /\ kpis' = IF stores THEN calculateKPIs(rows).kpis ELSE kpis
            /\ dash' = IF r.caller = "initial"
                       THEN FinishInitial([rendered EXCEPT !.loads.analytics = "ok"], pending)
                       ELSE rendered
            /\ initPending' = pending
            /\ dashPc' = IF dashPc = "starting" /\ pending = {} THEN "started" ELSE dashPc
            /\ UNCHANGED <<kpiPc, kpiThrown, issued, gateway, mapVars, gpsVars, progressVars, chartVars, notifVars, trackerVars>>

\* The gateway call fails: loadAnalytics records the error and rethrows, and
\* its caller shows a note.
AnalyticsFail ==
    \E r \in requests :
        LET pending == IF r.caller = "initial" THEN initPending \ {"analytics"}
                       ELSE initPending
            failed == [dash EXCEPT !.error = "gateway",
                                   !.note = FailureNote(r.caller)]
        IN  /\ requests' = requests \ {r}
            /\ dash' = IF r.caller = "initial"
                       THEN FinishInitial([failed EXCEPT !.loads.analytics = "failed"], pending)
                       ELSE failed
            /\ initPending' = pending
            /\ dashPc' = IF dashPc = "starting" /\ pending = {} THEN "started" ELSE dashPc
            /\ UNCHANGED <<kpiVars, issued, lastAnswer, newestAnswer, gateway, mapVars, gpsVars, progressVars, chartVars,
                           notifVars, trackerVars>>

-----------------------------------------------------------------------------
(* GPSInteractiveMaps.validateTrackingData *)

\* A field of a tracking point: absent, or present with an integer value.
Absent == <<>>
Some(v) == <<v>>

MaxLatitude == 90
MaxLongitude == 180
MaxAccuracy == 1000

\* !x for a numeric field: undefined, null and 0 are falsy.
Falsy(x) == x = Absent \/ x[1] = 0

MkPoint(lat, lng, acc) == [latitude |-> lat, longitude |-> lng, accuracy |-> acc]

\* A point every check accepts (the map's default centre, rounded).
GoodLat == Some(24)
GoodLng == Some(46)
GoodAcc == Some(50)

LatVals ==
    {Absent} \cup {Some(v) : v \in {0 - MaxLatitude - 1, 0 - MaxLatitude, 0, 24,
                                     MaxLatitude, MaxLatitude + 5}}
LngVals ==
    {Absent} \cup {Some(v) : v \in {0 - MaxLongitude - 1, 0 - MaxLongitude, 0, 46,
                                     MaxLongitude, MaxLongitude + 1}}
AccVals ==
    {Absent} \cup {Some(v) : v \in {0, 50, MaxAccuracy, MaxAccuracy + 1, MaxAccuracy + 500}}

\* Tracking points: each field varied alone, and the extremes combined.
TrackingPoints ==
    {MkPoint(lat, GoodLng, GoodAcc) : lat \in LatVals}
    \cup {MkPoint(GoodLat, lng, GoodAcc) : lng \in LngVals}
    \cup {MkPoint(GoodLat, GoodLng, acc) : acc \in AccVals}
    \cup {MkPoint(lat, lng, acc) : lat \in {Absent, Some(0), Some(MaxLatitude)},
                                   lng \in {Absent, Some(0), Some(MaxLongitude)},
                                   acc \in {Absent, Some(MaxAccuracy + 500)}}

\* The callback of data.filter: TRUE iff the point is kept.
KeepPoint(point) ==
    IF Falsy(point.latitude) \/ Falsy(point.longitude) THEN FALSE
    ELSE IF \/ point.latitude[1] < 0 - MaxLatitude
            \/ point.latitude[1] > MaxLatitude
            \/ point.longitude[1] < 0 - MaxLongitude
            \/ point.longitude[1] > MaxLongitude
         THEN FALSE
    ELSE IF ~Falsy(point.accuracy) /\ point.accuracy[1] > MaxAccuracy THEN FALSE
    ELSE TRUE

\* data.filter(callback): the kept points, in input order.
validateTrackingData(data) == SelectSeq(data, KeepPoint)

-----------------------------------------------------------------------------
(* GPSInteractiveMaps.loadInitialData *)

\* The fields of the state setup() builds that loadInitialData reads or writes.
\* setup() defines no realTimeSettings, and nothing assigns one.
\*   notified   the sticky error notification has been added
\*   rendered   renderCurrentView has run
\*   realTime   the interval of startRealTimeUpdates runs
\*   last       what the loadInitialData call that settled last did
NoCall ==
    [caller |-> "none", allOk |-> FALSE, errorSet |-> FALSE, notified |-> FALSE,
     rendered |-> FALSE, isLoading |-> FALSE]

MapsInit ==
    [mapLoaded |-> FALSE, isLoading |-> FALSE, error |-> FALSE, notified |-> FALSE,
     rendered |-> FALSE, realTimeSettings |-> Absent, realTime |-> FALSE,
     last |-> NoCall]

GpsIdle ==
    /\ maps = MapsInit
    /\ mapsCalls = {}

\* The rows a searchRead of gps.tracking may return.
MapRows == {<<>>, <<MkPoint(GoodLat, GoodLng, GoodAcc), MkPoint(Absent, GoodLng, GoodAcc)>>}

\* The four loads of Promise.all. loadSalesReps and loadTerritories catch their
\* failure; loadTrackingData and loadRouteData rethrow it.
MapLoads == {"salesReps", "territories", "tracking", "routes"}
Rethrows == {"tracking", "routes"}

\* A call after this.state.isLoading = true: the four loads are awaited.
NewMapCall(id, caller) ==
    [id |-> id, caller |-> caller, loads |-> [l \in MapLoads |-> "pending"],
     settled |-> FALSE]

Fulfilled(c) == \A l \in MapLoads : c.loads[l] = "ok"
Rejected(c) == \E l \in MapLoads : c.loads[l] = "failed"

\* The catch block and the finally block of loadInitialData.
CatchAndFinally(m, c, rendered) ==
    [m EXCEPT !.error = TRUE, !.notified = TRUE, !.isLoading = FALSE,
              !.last = [caller |-> c.caller, allOk |-> Fulfilled(c), errorSet |-> TRUE,
                        notified |-> TRUE, rendered |-> rendered, isLoading |-> FALSE]]

\* loadInitialData after Promise.all has fulfilled: renderCurrentView, then the
\* read of this.state.realTimeSettings.enabled, which throws a TypeError while
\* realTimeSettings is undefined.
AfterLoads(m, c) ==
    LET shown == [m EXCEPT !.rendered = TRUE]
    IN  IF shown.realTimeSettings = Absent
        THEN CatchAndFinally(shown, c, TRUE)
        ELSE [shown EXCEPT !.realTime = @ \/ shown.realTimeSettings[1],
                           !.isLoading = FALSE,
                           !.last = [caller |-> c.caller, allOk |-> TRUE,
                                     errorSet |-> FALSE, notified |-> FALSE,
                                     rendered |-> TRUE, isLoading |-> FALSE]]

\* Promise.all settles for call c: on the first rejection, or when all four
\* loads have fulfilled.
PromiseAllSettles(m, c) ==
    IF c.settled THEN m
    ELSE IF Rejected(c) THEN CatchAndFinally(m, c, FALSE)
    ELSE IF Fulfilled(c) THEN AfterLoads(m, c)
    ELSE m

\* loadInitialData up to its await; it returns at once while the map is not
\* loaded.
StartMapLoad(caller) ==
    IF ~maps.mapLoaded
    THEN UNCHANGED <<maps, mapsCalls>>
    ELSE /\ Cardinality(mapsCalls) < MaxMapCalls
         /\ \E id \in 1..MaxMapCalls :
               /\ \A c \in mapsCalls : c.id # id
               /\ \A d \in 1..(id - 1) : \E c \in mapsCalls : c.id = d
               /\ mapsCalls' = mapsCalls \cup {NewMapCall(id, caller)}
         /\ maps' = [maps EXCEPT !.isLoading = TRUE]

\* initializeGoogleMap / initializeLeafletMap: the map is created, mapLoaded is
\* set and loadInitialData is called.
initializeMap ==
    /\ ~maps.mapLoaded
    /\ maps' = [maps EXCEPT !.mapLoaded = TRUE, !.isLoading = TRUE]
    /\ mapsCalls' = mapsCalls \cup {NewMapCall(1, "map")}
    /\ UNCHANGED <<mapVars, dashVars, notifVars, trackerVars, progressVars, chartVars>>

\* onDateRangeChange: loadInitialData.
onDateRangeChange ==
    /\ StartMapLoad("dateRange")
    /\ UNCHANGED <<mapVars, dashVars, notifVars, trackerVars, progressVars, chartVars>>

\* One of the four searchRead calls of a loadInitialData call settles.
\* loadTrackingData stores the validated rows, or [] after a failure.
MapLoadSettles ==
    \E c \in mapsCalls, l \in MapLoads, ok \in BOOLEAN, rows \in MapRows :
        /\ c.loads[l] = "pending"
        /\ ok \/ rows = <<>>
        /\ LET outcome == IF ok \/ l \notin Rethrows THEN "ok" ELSE "failed"
               now == [c EXCEPT !.loads[l] = outcome]
               done == [now EXCEPT !.settled = Rejected(now) \/ Fulfilled(now)]
           IN  /\ maps' = PromiseAllSettles(maps, now)
               /\ mapsCalls' = IF \A k \in MapLoads : now.loads[k] # "pending"
                               THEN mapsCalls \ {c}
                               ELSE (mapsCalls \ {c}) \cup {done}
        /\ trackingData' = IF l # "tracking" THEN trackingData
                           ELSE IF ok THEN validateTrackingData(rows) ELSE <<>>
        /\ UNCHANGED <<trackInput, trackPc, dashVars, notifVars, trackerVars,
                       progressVars, chartVars>>

-----------------------------------------------------------------------------
(* RealTimeNotifications: connection state *)

maxReconnectAttempts == 5
BaseDelay == 1000
MaxDelay == 30000

Min(a, b) == IF a <= b THEN a ELSE b

\* The fields setup() initialises, with the bus listeners and pending timers.
\*   status         state.connectionStatus
\*   isConnected    state.isConnected
\*   isLoading      state.isLoading
\*   error          state.error is set
\*   attempts       this.reconnectAttempts
\*   timeoutSet     this.reconnectTimeout holds a timer id
\*   timers         pending reconnection timers, oldest first; held marks the
\*                  one whose id this.reconnectTimeout holds
\*   listeners      connectToBus calls that have registered their listeners
\*   refreshActive  this.refreshInterval is running
\*   scheduled      reconnection timers scheduled since the last 'connect' event
\*   subscribed     the four bus topics are subscribed
ConnInit ==
    [status |-> "disconnected", isConnected |-> FALSE, isLoading |-> FALSE,
     error |-> FALSE, attempts |-> 0, timeoutSet |-> FALSE, timers |-> <<>>,
     listeners |-> 0, refreshActive |-> FALSE, scheduled |-> 0, subscribed |-> FALSE]

\* The guard with > in place of >=.
ReconnectExhaustedLate(n) == n > maxReconnectAttempts

\* this.reconnectAttempts >= this.maxReconnectAttempts
ReconnectExhausted(n) == n >= maxReconnectAttempts

\* Math.min(1000 * Math.pow(2, this.reconnectAttempts), 30000), attempts already incremented
ReconnectDelay(n) == Min(BaseDelay * 2 ^ n, MaxDelay)

Unhold(timers) == [i \in 1..Len(timers) |-> [timers[i] EXCEPT !.held = FALSE]]

\* setTimeout: the new timer joins the pending ones.
AddTimer(timers, t) == Append(timers, t)

\* Timer i may expire next: no timer set earlier has a delay that ends sooner.
MayExpire(timers, i) == \A j \in 1..(i - 1) : timers[j].delay > timers[i].delay

\* attemptReconnection: give up with status 'error', or count the attempt and
\* schedule connectToBus after the backoff delay.
attemptReconnection(st) ==
    IF ReconnectExhausted(st.attempts)
    THEN [st EXCEPT !.status = "error"]
    ELSE LET n == st.attempts + 1
         IN  [st EXCEPT !.attempts = n,
                        !.timers = AddTimer(Unhold(@),
                                            [attempt |-> n, delay |-> ReconnectDelay(n),
                                             held |-> TRUE]),
                        !.timeoutSet = TRUE,
                        !.scheduled = @ + 1]

\* handleError(error, context); network: error.message includes 'network'.
handleError(st, network) ==
    LET marked == [st EXCEPT !.error = TRUE, !.status = "error", !.isLoading = FALSE]
    IN  IF network THEN attemptReconnection(marked) ELSE marked

\* connectToBus; ok = FALSE: a bus.subscribe call throws, the catch block sets
\* 'error' and rethrows.
connectToBus(st, ok) ==
    IF ok
    THEN [st EXCEPT !.status = "connecting", !.listeners = @ + 1, !.subscribed = TRUE]
    ELSE [st EXCEPT !.status = "error"]

\* One 'connect' listener.
onBusConnect(st) ==
    [st EXCEPT !.status = "connected", !.isConnected = TRUE, !.attempts = 0]

\* One 'disconnect' listener.
onBusDisconnect(st) ==
    attemptReconnection([st EXCEPT !.status = "disconnected", !.isConnected = FALSE])

\* One 'error' listener.
onBusError(st, network) == handleError([st EXCEPT !.status = "error"], network)

RECURSIVE DispatchDisconnect(_, _)
\* The bus calls each of the k registered 'disconnect' listeners in turn.
DispatchDisconnect(k, st) ==
    IF k = 0 THEN st ELSE DispatchDisconnect(k - 1, onBusDisconnect(st))

RECURSIVE DispatchError(_, _, _)
\* The bus calls each of the k registered 'error' listeners in turn.
DispatchError(k, st, network) ==
    IF k = 0 THEN st ELSE DispatchError(k - 1, onBusError(st, network), network)

\* The continuation of initializeComponent is queued: it runs before any other
\* timer, bus or gateway callback.
Microtask == initPc = "loaded"

RemoveAt(seq, i) == SubSeq(seq, 1, i - 1) \o SubSeq(seq, i + 1, Len(seq))

-----------------------------------------------------------------------------
(* RealTimeNotifications: settings and push messages *)

\* The toggles of settings.notificationTypes.
Categories ==
    {"visitReminder", "visitCompleted", "targetAchieved", "customerFeedback",
     "systemAlert", "routeUpdate", "emergencyAlert"}

\* state.settings as setup() builds it. notificationTypes is held as the set of
\* toggles that are true; enableInApp stands for the display channels.
DefaultSettings ==
    [notificationTypes |-> Categories, autoMarkRead |-> FALSE, enableInApp |-> TRUE]

\* Settings a user may have saved.
SettingsQuiet ==
    [notificationTypes |-> {"customerFeedback", "routeUpdate", "emergencyAlert"},
     autoMarkRead |-> FALSE, enableInApp |-> TRUE]

SettingsAutoRead ==
    [notificationTypes |-> Categories \ {"visitReminder"},
     autoMarkRead |-> TRUE, enableInApp |-> TRUE]

SavedSettings == {Absent, Some(SettingsQuiet), Some(SettingsAutoRead)}

\* What updateSettings may have left in local storage.
LocalSettings == {Absent, Some(SettingsQuiet)}

\* Object.assign(this.state.settings, userSettings) when userSettings is truthy.
AssignSettings(s, userSettings) ==
    IF userSettings = Absent THEN s ELSE userSettings[1]

\* loadUserSettings: the server's value is merged in; a failing call is caught
\* and leaves state.settings as it is.
loadUserSettings(s, server) ==
    IF server.settingsFail THEN s ELSE AssignSettings(s, server.settings)

\* A notification record; category is the toggle its notification_type
\* belongs to. NoId: the record carries no id.
NoId == 0

MkNotification(id, category, read) ==
    [id |-> id, category |-> category, is_read |-> read]

\* createNotification's id, `temp_${Date.now()}`, for the k-th message.
TempId(k) == 100 + k

\* notifications.filter(n => !n.is_read).length
Unread(ns) == Cardinality({i \in 1..Len(ns) : ~ns[i].is_read})

\* The rows a searchRead of sales.rep.notification may return.
StoredRows == {<<>>, <<MkNotification(3, "customerFeedback", FALSE)>>}

\* The notifications the server pushes.
PushedVisitReminder == MkNotification(1, "visitReminder", FALSE)

PushedRouteUpdate == MkNotification(2, "routeUpdate", FALSE)

\* A bus message: topic, type, the notifications it carries (isArray: they
\* come as an array), the id it names, a visit status, an achievement percentage.
MkMessage(topic, type, items, isArray, id, status, pct) ==
    [topic |-> topic, type |-> type, items |-> items, isArray |-> isArray,
     id |-> id, status |-> status, pct |-> pct]

ReminderMessage ==
    MkMessage("sales_rep_notifications", "new_notification", <<PushedVisitReminder>>,
              FALSE, NoId, "none", 0)

PushMessages ==
    {MkMessage("sales_rep_notifications", "new_notification", <<n>>, FALSE, NoId, "none", 0) :
        n \in {PushedVisitReminder, PushedRouteUpdate}}
    \cup {MkMessage("sales_rep_notifications", "notification_read", <<>>, FALSE, id, "none", 0) :
        id \in {1, 2}}
    \cup {MkMessage("sales_rep_notifications", "bulk_notification",
                    <<PushedVisitReminder, PushedRouteUpdate>>, a, NoId, "none", 0) :
        a \in BOOLEAN}
    \cup {MkMessage("sales_rep_notifications", "typing", <<PushedRouteUpdate>>, FALSE, 1, "none", 0)}
    \cup {MkMessage("visit_updates", "none", <<>>, FALSE, NoId, st, 0) :
        st \in {"completed", "in_progress"}}
    \cup {MkMessage("target_alerts", "none", <<>>, FALSE, NoId, "none", pct) :
        pct \in {99, 100}}
    \cup {MkMessage("system_notifications", "none", <<>>, FALSE, NoId, "none", 0)}

\* showNotification: the notification is displayed when a channel is enabled.
showNotification(box, s, n) ==
    IF s.enableInApp THEN [box EXCEPT !.shown = @ + 1] ELSE box

\* addNewNotification: unshift, updateUnreadCount, showNotification, and the
\* auto-mark-read timer when settings.autoMarkRead is set.
addNewNotification(box, s, n) ==
    LET ns == <<n>> \o box.notifications
        added == [box EXCEPT !.notifications = ns, !.unreadCount = Unread(ns)]
        shown == showNotification(added, s, n)
    IN  IF s.autoMarkRead THEN [shown EXCEPT !.autoMark = Append(@, n.id)] ELSE shown

createNotification(box, s, category, k) ==
    addNewNotification(box, s, MkNotification(TempId(k), category, FALSE))

\* notifications.find(n => n.id === id): its index, 0 when there is none.
FindById(ns, id) ==
    LET hits == {i \in 1..Len(ns) : ns[i].id = id}
    IN  IF hits = {} THEN 0 ELSE CHOOSE i \in hits : \A j \in hits : i <= j

\* markNotificationRead: the first notification with that id, when unread.
markNotificationRead(box, id) ==
    LET i == FindById(box.notifications, id)
    IN  IF i = 0 \/ box.notifications[i].is_read THEN box
        ELSE LET ns == [box.notifications EXCEPT ![i].is_read = TRUE]
             IN  [box EXCEPT !.notifications = ns, !.unreadCount = Unread(ns)]

RECURSIVE AddEach(_, _, _)
\* notifications.forEach(notif => this.addNewNotification(notif))
AddEach(box, s, items) ==
    IF items = <<>> THEN box
    ELSE AddEach(addNewNotification(box, s, Head(items)), s, Tail(items))

handleBulkNotification(box, s, msg) ==
    IF msg.isArray THEN AddEach(box, s, msg.items) ELSE box

\* A message of an unlisted type is added like a new notification.
handleBusMessageAddsUnknown(box, s, msg) ==
    CASE msg.type = "notification_read" -> markNotificationRead(box, msg.id)
      [] msg.type = "bulk_notification" -> handleBulkNotification(box, s, msg)
      [] OTHER -> addNewNotification(box, s, msg.items[1])

\* handleBusMessage: the switch on message.type has no default branch.
handleBusMessage(box, s, msg) ==
    CASE msg.type = "new_notification" -> addNewNotification(box, s, msg.items[1])
      [] msg.type = "notification_read" -> markNotificationRead(box, msg.id)
      [] msg.type = "bulk_notification" -> handleBulkNotification(box, s, msg)
      [] OTHER -> box

handleVisitUpdate(box, s, msg, k) ==
    IF "visitCompleted" \in s.notificationTypes /\ msg.status = "completed"
    THEN createNotification(box, s, "visitCompleted", k)
    ELSE box

handleTargetAlert(box, s, msg, k) ==
    IF "targetAchieved" \in s.notificationTypes /\ msg.pct >= 100
    THEN createNotification(box, s, "targetAchieved", k)
    ELSE box

\* handleSystemNotification passes a record without id and without is_read.
handleSystemNotification(box, s, msg) ==
    IF "systemAlert" \in s.notificationTypes
    THEN addNewNotification(box, s, MkNotification(NoId, "systemAlert", FALSE))
    ELSE box

\* The callback that connectToBus subscribes to the message's topic.
Dispatch(box, s, msg, k) ==
    CASE msg.topic = "sales_rep_notifications" -> handleBusMessage(box, s, msg)
      [] msg.topic = "visit_updates" -> handleVisitUpdate(box, s, msg, k)
      [] msg.topic = "target_alerts" -> handleTargetAlert(box, s, msg, k)
      [] msg.topic = "system_notifications" -> handleSystemNotification(box, s, msg)

\* loadNotifications storing the rows of a successful searchRead.
StoreRows(box, rows) ==
    [box EXCEPT !.notifications = rows, !.unreadCount = Unread(rows)]

\* markAsRead after its orm.write: the notification found by id is marked,
\* then updateUnreadCount.
MarkReadLocal(box, id) ==
    LET i == FindById(box.notifications, id)
        ns == IF i = 0 THEN box.notifications
              ELSE [box.notifications EXCEPT ![i].is_read = TRUE]
    IN  [box EXCEPT !.notifications = ns, !.unreadCount = Unread(ns)]

\* markAllAsRead: notifications.filter(n => !n.is_read).map(n => n.id)
unreadIds(ns) == {ns[i].id : i \in {j \in 1..Len(ns) : ~ns[j].is_read}}

\* The forEach of markAllAsRead that leaves the count as it was.
MarkAllLocalStale(box, ids) ==
    LET ns == [i \in 1..Len(box.notifications) |->
                  IF box.notifications[i].id \in ids
                  THEN [box.notifications[i] EXCEPT !.is_read = TRUE]
                  ELSE box.notifications[i]]
    IN  [box EXCEPT !.notifications = ns]

\* markAllAsRead after its orm.write: every notification whose id was
\* collected is marked, then updateUnreadCount.
MarkAllLocal(box, ids) ==
    LET ns == [i \in 1..Len(box.notifications) |->
                  IF box.notifications[i].id \in ids
                  THEN [box.notifications[i] EXCEPT !.is_read = TRUE]
                  ELSE box.notifications[i]]
    IN  [box EXCEPT !.notifications = ns, !.unreadCount = Unread(ns)]

\* initializePerformanceMonitoring has started its interval, which nothing
\* clears: initializeComponent has run to its end.
PerformanceLogging == initPc = "done"

\* A callback that runs after cleanup is recorded.
Ran(name) == IF unmounted THEN name ELSE ranAfter

\* A server without saved settings, without notification rows, pushing nothing.
BackendInit == [settings |-> Absent, settingsFail |-> FALSE, rows |-> <<>>, feed |-> {}]

\* No message delivered, nothing pending, the component not unmounted.
PushIdle ==
    /\ inbox = [notifications |-> <<>>, unreadCount |-> 0, shown |-> 0, autoMark |-> <<>>]
    /\ writes = {}
    /\ bulkWrites = {}
    /\ debounce = FALSE
    /\ unmounted = FALSE
    /\ ranAfter = "none"
    /\ pushed = 0
    /\ lastPush = <<>>

NotifIdle ==
    /\ conn = ConnInit
    /\ initPc = "constructed"
    /\ loadsInFlight = 0
    /\ connects = 0
    /\ busDown = FALSE
    /\ settings = DefaultSettings
    /\ backend = BackendInit
    /\ localStore = Absent
    /\ PushIdle

-----------------------------------------------------------------------------
(* RealTimeNotifications: steps *)

\* onMounted: initializeComponent up to its first await (loadUserSettings).
Mount ==
    /\ initPc = "constructed"
    /\ conn' = [conn EXCEPT !.isLoading = TRUE, !.status = "connecting", !.error = FALSE]
    /\ initPc' = "settings"
    /\ UNCHANGED <<loadsInFlight, connects, busDown, pushVars, prefVars, lifeVars,
                   dashVars, mapVars, gpsVars, progressVars, chartVars, trackerVars>>

\* loadUserSettings settles (it catches its own failure), the permission request
\* and the sound load follow, then connectToBus runs and loadNotifications
\* issues its searchRead.
InitConnect ==
    /\ initPc = "settings"
    /\ \E ok \in BOOLEAN, network \in BOOLEAN :
          IF ok
          THEN /\ conn' = [connectToBus(conn, TRUE) EXCEPT !.isLoading = TRUE]
               /\ initPc' = "loading"
          ELSE /\ conn' = handleError(connectToBus(conn, FALSE), network)
               /\ initPc' = "failed"
    /\ settings' = loadUserSettings(settings, backend)
    /\ UNCHANGED <<loadsInFlight, connects, busDown, backend, localStore, pushVars,
                   lifeVars, dashVars, mapVars, gpsVars, progressVars, chartVars, trackerVars>>

\* The searchRead of initializeComponent's loadNotifications settles; a failure
\* goes to handleError inside loadNotifications, which does not rethrow.
InitLoadSettles ==
    /\ initPc = "loading"
    /\ \E ok \in BOOLEAN, network \in BOOLEAN :
          /\ conn' = IF ok THEN [conn EXCEPT !.isLoading = FALSE]
                     ELSE [handleError(conn, network) EXCEPT !.isLoading = FALSE]
          /\ inbox' = IF ok THEN StoreRows(inbox, backend.rows) ELSE inbox
    /\ initPc' = "loaded"
    /\ UNCHANGED <<loadsInFlight, connects, busDown, writes, bulkWrites, pushed, lastPush,
                   prefVars, lifeVars, dashVars, mapVars, gpsVars, progressVars, chartVars, trackerVars>>

\* initializeComponent after loadNotifications: periodic refresh, performance
\* monitoring, then isConnected and connectionStatus are set.
InitFinish ==
    /\ initPc = "loaded"
    /\ conn' = [conn EXCEPT !.refreshActive = TRUE, !.isConnected = TRUE,
                            !.status = "connected", !.isLoading = FALSE]
    /\ initPc' = "done"
    /\ UNCHANGED <<loadsInFlight, connects, busDown, pushVars, prefVars, lifeVars,
                   dashVars, mapVars, gpsVars, progressVars, chartVars, trackerVars>>

\* The refresh interval fires: loadNotifications issues its searchRead.
RefreshTick ==
    /\ ~Microtask
    /\ conn.refreshActive
    /\ loadsInFlight < MaxInFlight
    /\ conn' = [conn EXCEPT !.isLoading = TRUE]
    /\ loadsInFlight' = loadsInFlight + 1
    /\ ranAfter' = Ran("refresh")
    /\ UNCHANGED <<initPc, connects, busDown, pushVars, prefVars, debounce, unmounted,
                   dashVars, mapVars, gpsVars, progressVars, chartVars, trackerVars>>

\* A periodic loadNotifications settles.
RefreshSettles ==
    /\ ~Microtask
    /\ loadsInFlight > 0
    /\ \E ok \in BOOLEAN, network \in BOOLEAN :
          /\ conn' = IF ok THEN [conn EXCEPT !.isLoading = FALSE]
                     ELSE [handleError(conn, network) EXCEPT !.isLoading = FALSE]
          /\ inbox' = IF ok THEN StoreRows(inbox, backend.rows) ELSE inbox
    /\ loadsInFlight' = loadsInFlight - 1
    /\ UNCHANGED <<initPc, connects, busDown, writes, bulkWrites, pushed, lastPush, prefVars,
                   lifeVars, dashVars, mapVars, gpsVars, progressVars, chartVars, trackerVars>>

\* The bus emits 'connect'.
BusConnect ==
    /\ ~Microtask
    /\ conn.listeners > 0
    /\ connects < MaxConnects
    /\ conn' = [onBusConnect(conn) EXCEPT !.scheduled = 0]
    /\ connects' = connects + 1
    /\ busDown' = FALSE
    /\ ranAfter' = Ran("connect")
    /\ UNCHANGED <<initPc, loadsInFlight, pushVars, prefVars, debounce, unmounted,
                   dashVars, mapVars, gpsVars, progressVars, chartVars, trackerVars>>

\* The bus emits 'disconnect'.
BusDisconnect ==
    /\ ~Microtask
    /\ conn.listeners > 0
    /\ conn' = DispatchDisconnect(conn.listeners, conn)
    /\ busDown' = TRUE
    /\ ranAfter' = Ran("disconnect")
    /\ UNCHANGED <<initPc, loadsInFlight, connects, pushVars, prefVars, debounce,
                   unmounted, dashVars, mapVars, gpsVars, progressVars, chartVars, trackerVars>>

\* The bus emits 'error'.
BusError ==
    /\ ~Microtask
    /\ conn.listeners > 0
    /\ \E network \in BOOLEAN : conn' = DispatchError(conn.listeners, conn, network)
    /\ ranAfter' = Ran("error")
    /\ UNCHANGED <<initPc, loadsInFlight, connects, busDown, pushVars, prefVars,
                   debounce, unmounted, dashVars, mapVars, gpsVars, progressVars, chartVars, trackerVars>>

\* A reconnection timer expires: connectToBus, and attemptReconnection again
\* when it throws.
ReconnectTimerFires ==
    /\ ~Microtask
    /\ \E i \in {j \in 1..Len(conn.timers) : MayExpire(conn.timers, j)}, ok \in BOOLEAN :
          LET fired == [conn EXCEPT !.timers = RemoveAt(@, i)]
          IN  conn' = IF ok THEN connectToBus(fired, TRUE)
                      ELSE attemptReconnection(connectToBus(fired, FALSE))
    /\ ranAfter' = Ran("reconnect")
    /\ UNCHANGED <<initPc, loadsInFlight, connects, busDown, pushVars, prefVars,
                   debounce, unmounted, dashVars, mapVars, gpsVars, progressVars, chartVars, trackerVars>>

\* The bus delivers a message on a subscribed topic.
Push ==
    /\ ~Microtask
    /\ conn.subscribed
    /\ pushed < MaxPushes
    /\ \E msg \in backend.feed :
          /\ inbox' = Dispatch(inbox, settings, msg, pushed + 1)
          /\ lastPush' = Some(msg)
    /\ pushed' = pushed + 1
    /\ ranAfter' = Ran("message")
    /\ UNCHANGED <<conn, initPc, loadsInFlight, connects, busDown, writes, bulkWrites, prefVars,
                   debounce, unmounted, dashVars, mapVars, gpsVars, progressVars, chartVars, trackerVars>>

\* An auto-mark-read timer expires (they all wait 3000 ms, so the oldest
\* first): markAsRead issues its orm.write.
AutoMarkFires ==
    /\ ~Microtask
    /\ inbox.autoMark # <<>>
    /\ inbox' = [inbox EXCEPT !.autoMark = Tail(@)]
    /\ writes' = writes \cup {Head(inbox.autoMark)}
    /\ ranAfter' = Ran("autoMarkRead")
    /\ UNCHANGED <<bulkWrites, conn, initPc, loadsInFlight, connects, busDown, pushed, lastPush,
                   prefVars, debounce, unmounted, dashVars, mapVars, gpsVars, progressVars, chartVars, trackerVars>>

\* The orm.write of markAsRead settles; a failure is logged only.
MarkWriteSettles ==
    /\ ~Microtask
    /\ \E id \in writes, ok \in BOOLEAN :
          /\ inbox' = IF ok THEN MarkReadLocal(inbox, id) ELSE inbox
          /\ writes' = writes \ {id}
    /\ UNCHANGED <<bulkWrites, conn, initPc, loadsInFlight, connects, busDown, pushed, lastPush,
                   prefVars, lifeVars, dashVars, mapVars, gpsVars, progressVars, chartVars, trackerVars>>

\* handleNotificationClick on an unread notification: markAsRead issues its
\* orm.write.
NotificationClick ==
    /\ ~Microtask
    /\ \E i \in 1..Len(inbox.notifications) :
          /\ ~inbox.notifications[i].is_read
          /\ writes' = writes \cup {inbox.notifications[i].id}
    /\ UNCHANGED <<inbox, bulkWrites, conn, initPc, loadsInFlight, connects, busDown,
                   pushed, lastPush, prefVars, lifeVars, dashVars, mapVars, gpsVars,
                   progressVars, chartVars, trackerVars>>

\* markAllAsRead up to its await: the ids of the unread notifications are
\* collected, and written when there are any.
MarkAllAsRead ==
    /\ ~Microtask
    /\ Cardinality(bulkWrites) < MaxBulkWrites
    /\ unreadIds(inbox.notifications) # {}
    /\ bulkWrites' = bulkWrites \cup {unreadIds(inbox.notifications)}
    /\ UNCHANGED <<inbox, writes, conn, initPc, loadsInFlight, connects, busDown,
                   pushed, lastPush, prefVars, lifeVars, dashVars, mapVars, gpsVars,
                   progressVars, chartVars, trackerVars>>

\* The orm.write of markAllAsRead settles; after a failure nothing is marked.
MarkAllSettles ==
    /\ ~Microtask
    /\ \E ids \in bulkWrites, ok \in BOOLEAN :
          /\ inbox' = IF ok THEN MarkAllLocal(inbox, ids) ELSE inbox
          /\ bulkWrites' = bulkWrites \ {ids}
    /\ UNCHANGED <<writes, conn, initPc, loadsInFlight, connects, busDown, pushed,
                   lastPush, prefVars, lifeVars, dashVars, mapVars, gpsVars, progressVars,
                   chartVars, trackerVars>>

\* The performance-logging interval of initializePerformanceMonitoring fires;
\* its id is not kept, so it keeps firing.
PerformanceLogTick ==
    /\ PerformanceLogging
    /\ ranAfter' = Ran("performanceLog")
    /\ UNCHANGED <<conn, initPc, loadsInFlight, connects, busDown, pushVars, prefVars,
                   debounce, unmounted, dashVars, mapVars, gpsVars, progressVars, chartVars, trackerVars>>

\* debouncedRefresh: the pending timeout is replaced.
DebouncedRefresh ==
    /\ initPc = "done"
    /\ ~unmounted
    /\ debounce' = TRUE
    /\ UNCHANGED <<conn, initPc, loadsInFlight, connects, busDown, pushVars, prefVars,
                   unmounted, ranAfter, dashVars, mapVars, gpsVars, progressVars, chartVars, trackerVars>>

\* The debounce timeout expires: loadNotifications issues its searchRead.
DebounceFires ==
    /\ ~Microtask
    /\ debounce
    /\ loadsInFlight < MaxInFlight
    /\ debounce' = FALSE
    /\ conn' = [conn EXCEPT !.isLoading = TRUE]
    /\ loadsInFlight' = loadsInFlight + 1
    /\ ranAfter' = Ran("debounce")
    /\ UNCHANGED <<initPc, connects, busDown, pushVars, prefVars, unmounted,
                   dashVars, mapVars, gpsVars, progressVars, chartVars, trackerVars>>

\* onWillUnmount: cleanup clears the refresh interval, the reconnection timer
\* whose id this.reconnectTimeout holds and the debounce timeout, and
\* unsubscribes the four topics.
Cleanup ==
    /\ initPc # "constructed"
    /\ ~unmounted
    /\ conn' = [conn EXCEPT !.refreshActive = FALSE,
                            !.timers = SelectSeq(@, LAMBDA t : ~t.held),
                            !.subscribed = FALSE]
    /\ debounce' = FALSE
    /\ unmounted' = TRUE
    /\ UNCHANGED <<initPc, loadsInFlight, connects, busDown, pushVars, prefVars,
                   ranAfter, dashVars, mapVars, gpsVars, progressVars, chartVars, trackerVars>>

-----------------------------------------------------------------------------
(* DailyVisitTracker: loads, visit tracking and timers *)

\* The state setup() builds, with the intervals the component has started.
\*   isLoading, error    state.isLoading, state.error is set
\*   isTracking          state.isTracking
\*   currentVisit        state.currentVisit (0: null)
\*   timer               state.timer holds an interval id
\*   elapsedTime         state.elapsedTime
\*   notes               the notifications shown so far
\*   refreshing          the 30-second interval of initializeTracker runs
\*   ticking             elapsed-time intervals that run
\*   unhandled           a promise of the component was rejected with no handler
\*   ranAfter            the callback that ran last after unmount
TrackerInit ==
    [isLoading |-> TRUE, error |-> FALSE, isTracking |-> FALSE, currentVisit |-> 0,
     timer |-> FALSE, elapsedTime |-> 0, notes |-> {}, refreshing |-> FALSE,
     ticking |-> 0, unhandled |-> FALSE, ranAfter |-> "none"]

TrackerIdle ==
    /\ trk = TrackerInit
    /\ trkPc = "constructed"
    /\ trkPending = {}
    /\ trkCalls = {}

VisitIds == {1, 2}

\* A callback of the tracker that runs after unmount is recorded.
TrackerRan(t, name) ==
    IF trkPc = "unmounted" THEN [t EXCEPT !.ranAfter = name] ELSE t

\* loadInitialData's finally block, once its three loads have settled.
FinishTrackerLoad(t, pending) ==
    IF pending = {} THEN [t EXCEPT !.isLoading = FALSE] ELSE t

\* stopTracking: the interval whose id state.timer holds is cleared.
stopTracking(t) ==
    [t EXCEPT !.ticking = IF t.timer THEN @ - 1 ELSE @,
              !.timer = FALSE, !.isTracking = FALSE, !.currentVisit = 0,
              !.elapsedTime = 0]

\* The notification a handler shows when its write and reload succeed.
SuccessNote(caller) ==
    CASE caller = "start" -> "Visit started successfully"
      [] caller = "complete" -> "Visit completed successfully"
      [] caller = "cancel" -> "Visit cancelled"

\* The notification a handler's catch block shows.
ErrorNote(caller) ==
    CASE caller = "start" -> "Error starting visit"
      [] caller = "complete" -> "Error completing visit"
      [] caller = "cancel" -> "Error cancelling visit"

\* A catch block that also resets the tracking state.
RejectionStopsTracking(t, caller) ==
    IF caller = "initial" THEN [t EXCEPT !.notes = @ \cup {"Failed to load visits"}]
    ELSE [t EXCEPT !.notes = @ \cup {ErrorNote(caller)}, !.isTracking = FALSE,
                   !.currentVisit = 0, !.elapsedTime = 0]

\* A rejected loadVisits promise reaches the .catch of loadInitialData or the
\* catch block of a handler.
RejectionHandled(t, caller) ==
    IF caller = "initial" THEN [t EXCEPT !.notes = @ \cup {"Failed to load visits"}]
    ELSE [t EXCEPT !.notes = @ \cup {ErrorNote(caller)}]

\* loadVisits rejects (it rethrows): the interval callback of initializeTracker
\* drops the promise, every other caller handles it.
loadVisitsRejected(t, caller) ==
    IF caller = "interval" THEN [t EXCEPT !.unhandled = TRUE]
    ELSE RejectionHandled(t, caller)

\* onWillStart: loadInitialData starts its three loads.
TrackerWillStart ==
    /\ trkPc = "constructed"
    /\ trkPc' = "starting"
    /\ trk' = [trk EXCEPT !.isLoading = TRUE, !.error = FALSE]
    /\ trkPending' = {"visits", "stats", "weather"}
    /\ trkCalls' = trkCalls \cup {[kind |-> "loadVisits", caller |-> "initial", visit |-> 0]}
    /\ UNCHANGED <<dashVars, mapVars, gpsVars, progressVars, chartVars, notifVars>>

\* loadStats or loadWeatherInfo settles; each catches its own failure.
TrackerSideLoadSettles ==
    /\ \E load \in trkPending \ {"visits"} :
          /\ trkPending' = trkPending \ {load}
          /\ trk' = FinishTrackerLoad(trk, trkPending')
          /\ trkPc' = IF trkPending' = {} THEN "started" ELSE trkPc
    /\ UNCHANGED <<trkCalls, dashVars, mapVars, gpsVars, progressVars, chartVars, notifVars>>

\* onMounted: initializeTracker starts the auto-refresh interval, whose id is
\* not kept.
TrackerMount ==
    /\ trkPc = "started"
    /\ trkPc' = "mounted"
    /\ trk' = [trk EXCEPT !.refreshing = TRUE]
    /\ UNCHANGED <<trkPending, trkCalls, dashVars, mapVars, gpsVars, progressVars, chartVars, notifVars>>

\* The auto-refresh interval fires: loadVisits unless a visit is tracked.
AutoRefreshTick ==
    /\ trk.refreshing
    /\ Cardinality(trkCalls) < MaxVisitCalls
    /\ trk' = TrackerRan(trk, "autoRefresh")
    /\ trkCalls' = IF trk.isTracking THEN trkCalls
                   ELSE trkCalls \cup {[kind |-> "loadVisits", caller |-> "interval",
                                         visit |-> 0]}
    /\ UNCHANGED <<trkPc, trkPending, dashVars, mapVars, gpsVars, progressVars, chartVars, notifVars>>

\* startVisit, completeVisit or cancelVisit up to its orm.write.
VisitAction ==
    /\ trkPc = "mounted"
    /\ Cardinality(trkCalls) < MaxVisitCalls
    /\ \E caller \in {"start", "complete", "cancel"}, id \in VisitIds :
          trkCalls' = trkCalls \cup {[kind |-> "write", caller |-> caller, visit |-> id]}
    /\ UNCHANGED <<trk, trkPc, trkPending, dashVars, mapVars, gpsVars, progressVars, chartVars, notifVars>>

\* The orm.write of a handler settles. startVisit then starts the elapsed-time
\* interval and keeps its id in state.timer; completeVisit and cancelVisit call
\* stopTracking; each then reloads the visits. A failure goes to the handler's
\* catch block.
VisitWriteSettles ==
    /\ \E c \in {x \in trkCalls : x.kind = "write"}, ok \in BOOLEAN :
          /\ trk' = IF ~ok THEN RejectionHandled(trk, c.caller)
                    ELSE IF c.caller = "start"
                    THEN [trk EXCEPT !.currentVisit = c.visit, !.isTracking = TRUE,
                                     !.elapsedTime = 0, !.timer = TRUE, !.ticking = @ + 1]
                    ELSE stopTracking(trk)
          /\ trkCalls' = IF ok
                         THEN (trkCalls \ {c}) \cup
                              {[kind |-> "loadVisits", caller |-> c.caller, visit |-> 0]}
                         ELSE trkCalls \ {c}
          /\ ok /\ c.caller = "start" => trk.ticking < MaxTimers
    /\ UNCHANGED <<trkPc, trkPending, dashVars, mapVars, gpsVars, progressVars, chartVars, notifVars>>

\* The searchRead of loadVisits settles.
LoadVisitsSettles ==
    /\ \E c \in {x \in trkCalls : x.kind = "loadVisits"}, ok \in BOOLEAN :
          LET pending == IF c.caller = "initial" THEN trkPending \ {"visits"}
                         ELSE trkPending
              settled == IF ~ok THEN loadVisitsRejected(trk, c.caller)
                         ELSE IF c.caller \in {"start", "complete", "cancel"}
                         THEN [trk EXCEPT !.notes = @ \cup {SuccessNote(c.caller)}]
                         ELSE trk
          IN  /\ trk' = IF c.caller = "initial" THEN FinishTrackerLoad(settled, pending)
                        ELSE settled
              /\ trkPending' = pending
              /\ trkPc' = IF trkPc = "starting" /\ pending = {} THEN "started" ELSE trkPc
              /\ trkCalls' = trkCalls \ {c}
    /\ UNCHANGED <<dashVars, mapVars, gpsVars, progressVars, chartVars, notifVars>>

\* An elapsed-time interval fires.
ElapsedTick ==
    /\ trk.ticking > 0
    /\ trk.elapsedTime < MaxElapsed
    /\ trk' = TrackerRan([trk EXCEPT !.elapsedTime = @ + 1], "elapsedTime")
    /\ UNCHANGED <<trkPc, trkPending, trkCalls, dashVars, mapVars, gpsVars, progressVars, chartVars, notifVars>>

\* The view unmounts. The class defines no cleanup: nothing is cleared.
TrackerUnmount ==
    /\ trkPc = "mounted"
    /\ trkPc' = "unmounted"
    /\ UNCHANGED <<trk, trkPending, trkCalls, dashVars, mapVars, gpsVars, progressVars, chartVars, notifVars>>

-----------------------------------------------------------------------------
(* DailyVisitTracker.calculateVisitProgress *)

VisitStates == {"planned", "in_progress", "completed", "cancelled", "rescheduled"}

\* visit.duration || 60
DefaultDuration == 60

\* Minutes of the day: the first ones and one a default duration later.
Minutes == 0..MaxMinutes \cup {DefaultDuration}

\* A visit record as searchRead returns it, with the fields the function reads:
\*   state               visit.state
\*   actual_start_time   Absent (false) or the minute the visit started
\*   duration            0 (unset) or the expected minutes
\*   planned_time        Absent (no time the Date constructor can parse) or the
\*                       minute planned
ProgressVisits ==
    [state: VisitStates, actual_start_time: {Absent} \cup {Some(t) : t \in Minutes},
     duration: 0..MaxMinutes, planned_time: {Absent} \cup {Some(t) : t \in Minutes}]

\* A progress value is the fraction n / d (d > 0).
Whole(n) == [n |-> n, d |-> 1]

NoProgress == [n |-> 0, d |-> 0]

\* Math.min(x, 95) for the fraction x.
CapAt95(x) == IF x.n >= 95 * x.d THEN Whole(95) ELSE x

\* The progress of a running visit: min(elapsed / expected * 100, 95).
RunningProgress(visit, now) ==
    LET elapsed == now - visit.actual_start_time[1]
        expected == IF visit.duration = 0 THEN DefaultDuration ELSE visit.duration
    IN  CapAt95([n |-> elapsed * 100, d |-> expected])

\* calculateVisitProgress for every in_progress visit, with or without a start time.
calculateVisitProgressAlways(visit, now) ==
    IF visit.state = "completed" THEN Whole(100)
    ELSE IF visit.state = "cancelled" THEN Whole(0)
    ELSE IF visit.state = "in_progress"
    THEN IF visit.actual_start_time = Absent THEN Whole(95) ELSE RunningProgress(visit, now)
    ELSE IF /\ visit.state = "planned"
            /\ visit.planned_time # Absent
            /\ now > visit.planned_time[1]
    THEN Whole(0 - 1)
    ELSE Whole(0)

calculateVisitProgress(visit, now) ==
    IF visit.state = "completed" THEN Whole(100)
    ELSE IF visit.state = "cancelled" THEN Whole(0)
    ELSE IF visit.state = "in_progress" /\ visit.actual_start_time # Absent
    THEN RunningProgress(visit, now)
    ELSE IF /\ visit.state = "planned"
            /\ visit.planned_time # Absent
            /\ now > visit.planned_time[1]
    THEN Whole(0 - 1)
    ELSE Whole(0)

-----------------------------------------------------------------------------
(* DailyVisitTracker.getVisitTimeStatus *)

\* The thresholds of the function, in minutes.
EarlyLimit == 5
OnTimeLimit == 15
OverdueLimit == 15
UpcomingLimit == 30

\* The minute every visit of the status model is planned at.
PlannedMinute == UpcomingLimit

\* The minutes around minute t.
Near(t) == (t - MaxMinutes + 1)..(t + MaxMinutes - 1)

\* Minutes whose distance to PlannedMinute is around each threshold.
StatusMinutes ==
    Near(PlannedMinute - EarlyLimit) \cup Near(PlannedMinute + OnTimeLimit)
        \cup Near(PlannedMinute - UpcomingLimit)

\* planned_time is Absent when the field is unset (falsy).
StatusVisits ==
    [state: VisitStates, actual_start_time: {Absent} \cup {Some(t) : t \in StatusMinutes},
     duration: {0}, planned_time: {Absent, Some(PlannedMinute)}]

\* getVisitTimeStatus with diffMinutes < -5 for 'early'.
getVisitTimeStatusStrict(visit, now) ==
    IF visit.planned_time = Absent THEN "unknown"
    ELSE LET plannedTime == visit.planned_time[1]
         IN  IF visit.state = "completed" /\ visit.actual_start_time # Absent
             THEN LET diffMinutes == visit.actual_start_time[1] - plannedTime
                  IN  IF diffMinutes < 0 - EarlyLimit THEN "early"
                      ELSE IF diffMinutes <= OnTimeLimit THEN "on-time"
                      ELSE "late"
             ELSE IF visit.state = "planned"
             THEN LET diffMinutes == now - plannedTime
                  IN  IF diffMinutes > OverdueLimit THEN "overdue"
                      ELSE IF diffMinutes > 0 - UpcomingLimit THEN "upcoming"
                      ELSE "scheduled"
             ELSE visit.state

getVisitTimeStatus(visit, now) ==
    IF visit.planned_time = Absent THEN "unknown"
    ELSE LET plannedTime == visit.planned_time[1]
         IN  IF visit.state = "completed" /\ visit.actual_start_time # Absent
             THEN LET diffMinutes == visit.actual_start_time[1] - plannedTime
                  IN  IF diffMinutes <= 0 - EarlyLimit THEN "early"
                      ELSE IF diffMinutes <= OnTimeLimit THEN "on-time"
                      ELSE "late"
             ELSE IF visit.state = "planned"
             THEN LET diffMinutes == now - plannedTime
                  IN  IF diffMinutes > OverdueLimit THEN "overdue"
                      ELSE IF diffMinutes > 0 - UpcomingLimit THEN "upcoming"
                      ELSE "scheduled"
             ELSE visit.state

ProgressIdle ==
    /\ progVisit = [state |-> "planned", actual_start_time |-> Absent, duration |-> 0,
                    planned_time |-> Absent]
    /\ progNow = 0
    /\ progress = NoProgress
    /\ progPc = "ready"
    /\ timeStatus = "none"

-----------------------------------------------------------------------------
(* InteractiveCharts: the chart instances *)

\* The canvas elements of the template; any other id finds no element.
Canvases == {"chart1", "chart2"}

CanvasIds == Canvases \cup {"missing"}

\* The global Chart may exist when the component is constructed. One that is
\* "strict" refuses a canvas that already has a chart (new Chart throws); one
\* that is "lenient" accepts it.
ChartLibraries == {"none", "lenient", "strict"}

NoCharts == [c \in Canvases |-> 0]

ChartsIdle ==
    /\ chartLib = "none"
    /\ chartInstances = NoCharts
    /\ liveCharts = {}
    /\ chartsMade = 0

\* The charts alive on a canvas.
LiveOn(canvasId) == {ch \in liveCharts : ch.canvas = canvasId}

\* chart.destroy()
Destroyed(live, id) == {ch \in live : ch.id # id}

\* new Chart(ctx, ...) throws: the data has no datasets, or the library refuses
\* the canvas.
ConstructorThrows(live, canvasId, dataOk) ==
    \/ ~dataOk
    \/ chartLib = "strict" /\ \E ch \in live : ch.canvas = canvasId

\* createLineChart and createBarChart: nothing without the canvas or the
\* library; the chart registered for the canvas is destroyed; the new chart is
\* constructed and registered. An exception ends the method where it is thrown.
createChecked(type, canvasId, dataOk) ==
    IF canvasId \notin Canvases \/ chartLib = "none"
    THEN UNCHANGED <<chartInstances, liveCharts, chartsMade>>
    ELSE LET old == chartInstances[canvasId]
             cleared == IF old # 0 THEN Destroyed(liveCharts, old) ELSE liveCharts
         IN  IF ConstructorThrows(cleared, canvasId, dataOk)
             THEN /\ liveCharts' = cleared
                  /\ UNCHANGED <<chartInstances, chartsMade>>
             ELSE /\ chartsMade' = chartsMade + 1
                  /\ liveCharts' = cleared \cup {[id |-> chartsMade + 1, canvas |-> canvasId, type |-> type]}
                  /\ chartInstances' = [chartInstances EXCEPT ![canvasId] = chartsMade + 1]

\* createDoughnutChart and createRadarChart: nothing without the canvas or the
\* library; the new chart is constructed and registered.
createUnchecked(type, canvasId, dataOk) ==
    IF canvasId \notin Canvases \/ chartLib = "none"
    THEN UNCHANGED <<chartInstances, liveCharts, chartsMade>>
    ELSE IF ConstructorThrows(liveCharts, canvasId, dataOk)
         THEN UNCHANGED <<chartInstances, liveCharts, chartsMade>>
         ELSE /\ chartsMade' = chartsMade + 1
              /\ liveCharts' = liveCharts \cup {[id |-> chartsMade + 1, canvas |-> canvasId, type |-> type]}
              /\ chartInstances' = [chartInstances EXCEPT ![canvasId] = chartsMade + 1]

\* onMounted: loadChartLibrary loads Chart.js 4.4.0 when there is no global Chart.
loadChartLibrary ==
    /\ chartLib = "none"
    /\ chartLib' \in {"none", "strict"}
    /\ UNCHANGED <<chartInstances, liveCharts, chartsMade, dashVars, mapVars, gpsVars, notifVars,
                   trackerVars, progressVars>>

createLineChart ==
    /\ chartsMade < MaxCharts
    /\ \E canvasId \in CanvasIds, dataOk \in BOOLEAN :
          createChecked("line", canvasId, dataOk)
    /\ UNCHANGED <<chartLib, dashVars, mapVars, gpsVars, notifVars, trackerVars, progressVars>>

createBarChart ==
    /\ chartsMade < MaxCharts
    /\ \E canvasId \in CanvasIds, dataOk \in BOOLEAN :
          createChecked("bar", canvasId, dataOk)
    /\ UNCHANGED <<chartLib, dashVars, mapVars, gpsVars, notifVars, trackerVars, progressVars>>

createDoughnutChart ==
    /\ chartsMade < MaxCharts
    /\ \E canvasId \in CanvasIds, dataOk \in BOOLEAN :
          createUnchecked("doughnut", canvasId, dataOk)
    /\ UNCHANGED <<chartLib, dashVars, mapVars, gpsVars, notifVars, trackerVars, progressVars>>

createRadarChart ==
    /\ chartsMade < MaxCharts
    /\ \E canvasId \in CanvasIds, dataOk \in BOOLEAN :
          createUnchecked("radar", canvasId, dataOk)
    /\ UNCHANGED <<chartLib, dashVars, mapVars, gpsVars, notifVars, trackerVars, progressVars>>

\* destroyChart: the chart registered for the canvas is destroyed and its entry
\* deleted.
destroyChart ==
    \E canvasId \in CanvasIds :
        /\ IF canvasId \in Canvases /\ chartInstances[canvasId] # 0
           THEN /\ liveCharts' = Destroyed(liveCharts, chartInstances[canvasId])
                /\ chartInstances' = [chartInstances EXCEPT ![canvasId] = 0]
           ELSE UNCHANGED <<chartInstances, liveCharts>>
        /\ UNCHANGED <<chartLib, chartsMade, dashVars, mapVars, gpsVars, notifVars, trackerVars,
                       progressVars>>

\* destroyAllCharts (also the onWillUnmount hook): every registered chart is
\* destroyed and the map cleared.
destroyAllCharts ==
    /\ liveCharts' = {ch \in liveCharts : \A c \in Canvases : chartInstances[c] # ch.id}
    /\ chartInstances' = NoCharts
    /\ UNCHANGED <<chartLib, chartsMade, dashVars, mapVars, gpsVars, notifVars, trackerVars,
                   progressVars>>

-----------------------------------------------------------------------------
(* Specification of calculateKPIs alone: any rows in state.analytics *)

\* The other components, freshly constructed.
MapsIdle ==
    /\ trackInput = <<>>
    /\ trackingData = <<>>
    /\ trackPc = "ready"

\* The dashboard as setup() leaves it.
FlowFresh ==
    /\ dash = DashInit
    /\ dashPc = "constructed"
    /\ initPending = {}
    /\ requests = {}
    /\ issued = 0
    /\ lastAnswer = NoAnswer
    /\ newestAnswer = NoAnswer

FlowIdle ==
    /\ gateway = [rows |-> GatewayData, loadsOk |-> BOOLEAN]
    /\ FlowFresh

KpiIdle ==
    /\ analytics = <<>>
    /\ kpis = InitialKpis
    /\ kpiPc = "ready"
    /\ kpiThrown = FALSE
    /\ FlowIdle

InitKPI ==
    /\ TrackerIdle
    /\ GpsIdle
    /\ ProgressIdle
    /\ ChartsIdle
    /\ analytics \in KpiInputs(MaxRows)
    /\ kpis = InitialKpis
    /\ kpiPc = "ready"
    /\ kpiThrown = FALSE
    /\ FlowIdle
    /\ MapsIdle
    /\ NotifIdle

CalculateKPIs ==
    /\ kpiPc = "ready"
    /\ kpis' = calculateKPIs(analytics).kpis
    /\ kpiThrown' = calculateKPIs(analytics).thrown
    /\ kpiPc' = "done"
    /\ UNCHANGED <<analytics, flowVars, mapVars, gpsVars, progressVars, chartVars, notifVars, trackerVars>>

NextKPI == CalculateKPIs

SpecKPI == InitKPI /\ [][NextKPI]_vars


-----------------------------------------------------------------------------
(* Specification of the map component's data loads *)

InitMaps ==
    /\ GpsIdle
    /\ MapsIdle
    /\ KpiIdle
    /\ NotifIdle
    /\ TrackerIdle
    /\ ProgressIdle
    /\ ChartsIdle

NextMaps ==
    \/ initializeMap
    \/ onDateRangeChange
    \/ MapLoadSettles

SpecMaps == InitMaps /\ [][NextMaps]_vars

-----------------------------------------------------------------------------
(* Specification of validateTrackingData alone: any rows from the gateway *)

InitTrack ==
    /\ trackInput \in SeqsUpTo(TrackingPoints, MaxPoints)
    /\ trackingData = <<>>
    /\ trackPc = "ready"
    /\ KpiIdle
    /\ NotifIdle
    /\ TrackerIdle
    /\ GpsIdle
    /\ ProgressIdle
    /\ ChartsIdle

\* loadTrackingData storing the validated rows of a successful searchRead.
ValidateTrackingData ==
    /\ trackPc = "ready"
    /\ trackingData' = validateTrackingData(trackInput)
    /\ trackPc' = "done"
    /\ UNCHANGED <<trackInput, gpsVars, dashVars, notifVars, trackerVars, progressVars, chartVars>>

NextTrack == ValidateTrackingData

SpecTrack == InitTrack /\ [][NextTrack]_vars

-----------------------------------------------------------------------------
(* Specification of the RealTimeNotifications connection *)

InitNotif ==
    /\ TrackerIdle
    /\ GpsIdle
    /\ ProgressIdle
    /\ ChartsIdle
    /\ NotifIdle
    /\ KpiIdle
    /\ MapsIdle

NextNotif ==
    \/ Mount
    \/ InitConnect
    \/ InitLoadSettles
    \/ InitFinish
    \/ RefreshTick
    \/ RefreshSettles
    \/ BusConnect
    \/ BusDisconnect
    \/ BusError
    \/ ReconnectTimerFires

SpecNotif == InitNotif /\ [][NextNotif]_vars

-----------------------------------------------------------------------------
(* Specification of the RealTimeNotifications settings and push messages *)

\* The server and the local storage hold what earlier sessions left there.
InitPush ==
    /\ conn = ConnInit
    /\ initPc = "constructed"
    /\ loadsInFlight = 0
    /\ connects = 0
    /\ busDown = FALSE
    /\ settings = DefaultSettings
    /\ backend \in [settings : SavedSettings, settingsFail : BOOLEAN, rows : StoredRows,
                    feed : {PushMessages}]
    /\ localStore \in LocalSettings
    /\ PushIdle
    /\ KpiIdle
    /\ MapsIdle
    /\ TrackerIdle
    /\ GpsIdle
    /\ ProgressIdle
    /\ ChartsIdle

NextPush ==
    \/ Mount
    \/ InitConnect
    \/ InitLoadSettles
    \/ InitFinish
    \/ Push
    \/ AutoMarkFires
    \/ MarkWriteSettles

SpecPush == InitPush /\ [][NextPush]_vars

-----------------------------------------------------------------------------
(* Specification of the RealTimeNotifications timers and unmount *)

\* The user has saved settings with autoMarkRead; the server pushes reminders.
InitLife ==
    /\ conn = ConnInit
    /\ initPc = "constructed"
    /\ loadsInFlight = 0
    /\ connects = 0
    /\ busDown = FALSE
    /\ settings = DefaultSettings
    /\ backend = [settings |-> Some(SettingsAutoRead), settingsFail |-> FALSE,
                  rows |-> <<>>, feed |-> {ReminderMessage}]
    /\ localStore = Absent
    /\ PushIdle
    /\ KpiIdle
    /\ MapsIdle
    /\ TrackerIdle
    /\ GpsIdle
    /\ ProgressIdle
    /\ ChartsIdle

NextLife ==
    \/ Mount
    \/ InitConnect
    \/ InitLoadSettles
    \/ InitFinish
    \/ RefreshTick
    \/ RefreshSettles
    \/ BusDisconnect
    \/ ReconnectTimerFires
    \/ Push
    \/ AutoMarkFires
    \/ MarkWriteSettles
    \/ PerformanceLogTick
    \/ DebouncedRefresh
    \/ DebounceFires
    \/ Cleanup

SpecLife == InitLife /\ [][NextLife]_vars

-----------------------------------------------------------------------------
(* Specification of the dashboard's analytics loading *)

InitDash ==
    /\ TrackerIdle
    /\ GpsIdle
    /\ ProgressIdle
    /\ ChartsIdle
    /\ KpiIdle
    /\ MapsIdle
    /\ NotifIdle

NextDash ==
    \/ WillStart
    \/ FiltersSettle
    \/ RealTimeSettles
    \/ DashMount
    \/ onPeriodTypeChange
    \/ onDateFromChange
    \/ onDateToChange
    \/ AnalyticsArrive
    \/ AnalyticsFail

SpecDash == InitDash /\ [][NextDash]_vars

-----------------------------------------------------------------------------
(* Specification of the dashboard's loadInitialData, first and on refresh *)

\* The gateway has one data set; every load may fail.
InitInitialData ==
    /\ analytics = <<>>
    /\ kpis = InitialKpis
    /\ kpiPc = "ready"
    /\ kpiThrown = FALSE
    /\ gateway = [rows |-> {ExampleSingle}, loadsOk |-> BOOLEAN]
    /\ FlowFresh
    /\ MapsIdle
    /\ NotifIdle
    /\ TrackerIdle
    /\ GpsIdle
    /\ ProgressIdle
    /\ ChartsIdle

NextInitialData ==
    \/ WillStart
    \/ FiltersSettle
    \/ RealTimeSettles
    \/ DashMount
    \/ onDateFromChange
    \/ onDateToChange
    \/ refreshData
    \/ AnalyticsArrive
    \/ AnalyticsFail

SpecInitialData == InitInitialData /\ [][NextInitialData]_vars

-----------------------------------------------------------------------------
(* Specification of the dashboard's filter handlers and refreshData *)

\* The gateway has one data set; the filter and real-time loads succeed.
InitReload ==
    /\ analytics = <<>>
    /\ kpis = InitialKpis
    /\ kpiPc = "ready"
    /\ kpiThrown = FALSE
    /\ gateway = [rows |-> {ExampleSingle}, loadsOk |-> {TRUE}]
    /\ FlowFresh
    /\ MapsIdle
    /\ NotifIdle
    /\ TrackerIdle
    /\ GpsIdle
    /\ ProgressIdle
    /\ ChartsIdle

NextReload ==
    \/ WillStart
    \/ FiltersSettle
    \/ RealTimeSettles
    \/ DashMount
    \/ onPeriodTypeChange
    \/ onDateFromChange
    \/ onDateToChange
    \/ refreshData
    \/ AnalyticsArrive
    \/ AnalyticsFail

SpecReload == InitReload /\ [][NextReload]_vars

-----------------------------------------------------------------------------
(* Specification of the DailyVisitTracker loads and timers *)

InitTracker ==
    /\ TrackerIdle
    /\ GpsIdle
    /\ ProgressIdle
    /\ ChartsIdle
    /\ KpiIdle
    /\ MapsIdle
    /\ NotifIdle

NextTracker ==
    \/ TrackerWillStart
    \/ TrackerSideLoadSettles
    \/ TrackerMount
    \/ AutoRefreshTick
    \/ VisitAction
    \/ VisitWriteSettles
    \/ LoadVisitsSettles
    \/ ElapsedTick
    \/ TrackerUnmount

SpecTracker == InitTracker /\ [][NextTracker]_vars

-----------------------------------------------------------------------------
(* Specification of calculateVisitProgress alone: any visit, any time *)

InitProgress ==
    /\ progVisit \in ProgressVisits
    /\ progNow \in Minutes
    /\ progress = NoProgress
    /\ progPc = "ready"
    /\ timeStatus = "none"
    /\ ChartsIdle
    /\ TrackerIdle
    /\ GpsIdle
    /\ KpiIdle
    /\ MapsIdle
    /\ NotifIdle

CalculateVisitProgress ==
    /\ progPc = "ready"
    /\ progress' = calculateVisitProgress(progVisit, progNow)
    /\ progPc' = "done"
    /\ UNCHANGED <<progVisit, progNow, timeStatus, dashVars, mapVars, gpsVars, notifVars, trackerVars,
                   chartVars>>

NextProgress == CalculateVisitProgress

SpecProgress == InitProgress /\ [][NextProgress]_vars

-----------------------------------------------------------------------------
(* Specification of getVisitTimeStatus alone: any visit, any time *)

InitStatus ==
    /\ progVisit \in StatusVisits
    /\ progNow \in StatusMinutes
    /\ progress = NoProgress
    /\ progPc = "ready"
    /\ timeStatus = "none"
    /\ ChartsIdle
    /\ TrackerIdle
    /\ GpsIdle
    /\ KpiIdle
    /\ MapsIdle
    /\ NotifIdle

GetVisitTimeStatus ==
    /\ progPc = "ready"
    /\ timeStatus' = getVisitTimeStatus(progVisit, progNow)
    /\ progPc' = "done"
    /\ UNCHANGED <<progVisit, progNow, progress, dashVars, mapVars, gpsVars, notifVars, trackerVars,
                   chartVars>>

NextStatus == GetVisitTimeStatus

SpecStatus == InitStatus /\ [][NextStatus]_vars

-----------------------------------------------------------------------------
(* Specification of InteractiveCharts: any calls of its chart methods *)

InitCharts ==
    /\ chartLib \in ChartLibraries
    /\ chartInstances = NoCharts
    /\ liveCharts = {}
    /\ chartsMade = 0
    /\ ProgressIdle
    /\ TrackerIdle
    /\ GpsIdle
    /\ KpiIdle
    /\ MapsIdle
    /\ NotifIdle

NextCharts ==
    \/ loadChartLibrary
    \/ createLineChart
    \/ createBarChart
    \/ createDoughnutChart
    \/ createRadarChart
    \/ destroyChart
    \/ destroyAllCharts

SpecCharts == InitCharts /\ [][NextCharts]_vars

\* One message of each kind that changes the notification list.
UnreadFeed ==
    {ReminderMessage,
     MkMessage("sales_rep_notifications", "notification_read", <<>>, FALSE, 1, "none", 0),
     MkMessage("sales_rep_notifications", "bulk_notification",
               <<PushedVisitReminder, PushedRouteUpdate>>, TRUE, NoId, "none", 0),
     MkMessage("system_notifications", "none", <<>>, FALSE, NoId, "none", 0)}

\* The notification list under the first loadNotifications, which pushes and
\* clicks may precede, pushes and the mark-as-read handlers,
\* for a user with the default settings and one stored notification.
InitUnread ==
    /\ conn = ConnInit
    /\ initPc = "constructed"
    /\ loadsInFlight = 0
    /\ connects = 0
    /\ busDown = FALSE
    /\ settings = DefaultSettings
    /\ backend = [settings |-> Absent, settingsFail |-> FALSE,
                  rows |-> <<MkNotification(3, "customerFeedback", FALSE)>>,
                  feed |-> UnreadFeed]
    /\ localStore = Absent
    /\ PushIdle
    /\ KpiIdle
    /\ MapsIdle
    /\ TrackerIdle
    /\ GpsIdle
    /\ ProgressIdle
    /\ ChartsIdle

NextUnread ==
    \/ Mount
    \/ InitConnect
    \/ InitLoadSettles
    \/ InitFinish
    \/ Push
    \/ NotificationClick
    \/ MarkWriteSettles
    \/ MarkAllAsRead
    \/ MarkAllSettles

SpecUnread == InitUnread /\ [][NextUnread]_vars

-----------------------------------------------------------------------------
(* Properties of calculateKPIs (SpecKPI) *)

NoNullRow == \A i \in 1..Len(analytics) : analytics[i] # NullRow

\* The value a field contributes to a sum: 0 when it is absent.
Contribution(i, f) == IF analytics[i][f] = Missing THEN 0 ELSE analytics[i][f]

RECURSIVE SumUpTo(_, _)
\* The sum of field f over the first n rows of state.analytics.
SumUpTo(n, f) == IF n = 0 THEN 0 ELSE SumUpTo(n - 1, f) + Contribution(n, f)

\* g is num / den rounded to the nearest integer, a tie going up.
IsRounded(g, num, den) == 2 * den * g - den <= 2 * num /\ 2 * num < 2 * den * g + den

\* C1: after calculateKPIs, for every sequence of rows (every element a row),
\* totalVisits is the sum of the rows' total_visits and totalRevenue the sum of
\* their total_revenue, a missing field counting as 0; for the empty sequence
\* every field of the summary is 0.
C1_SumsOfRows ==
    kpiPc = "done" =>
        /\ NoNullRow =>
              /\ kpis.totalVisits = SumUpTo(Len(analytics), "total_visits")
              /\ kpis.totalRevenue = SumUpTo(Len(analytics), "total_revenue")
        /\ analytics = <<>> => \A f \in DOMAIN kpis : kpis[f] = 0

C1_Witness ==
    /\ kpiPc = "done"
    /\ Len(analytics) = 2
    /\ NoNullRow
    /\ analytics[1].total_visits = Missing
    /\ analytics[2].total_visits = 2
    /\ analytics[1].total_revenue = MaxVal
    /\ analytics[2].total_revenue = Missing
    /\ kpis.totalVisits = 2
    /\ kpis.totalRevenue = MaxVal

\* C2: growthRate is ((last - first) / first) * 100 rounded to 2 decimals, first
\* and last being the total_visits of the first and last row, when there are at
\* least 2 rows and first > 0; otherwise (fewer than 2 rows, first 0 or missing)
\* it is 0.
C2_GrowthRate ==
    (kpiPc = "done" /\ NoNullRow /\ analytics # <<>>) =>
        LET first == Contribution(1, "total_visits")
            last == Contribution(Len(analytics), "total_visits")
        IN  IF Len(analytics) >= 2 /\ first > 0
            THEN IsRounded(kpis.growthRate, (last - first) * 10000, first)
            ELSE kpis.growthRate = 0

C2_Witness ==
    /\ kpiPc = "done"
    /\ analytics = ExampleThirds
    /\ kpis.growthRate = 3333

\* C3: targetAchievement is (sum of total_visits / sum of target_visits) * 100
\* rounded to 2 decimals when the sum of target_visits is greater than 0, and 0
\* when that sum is 0; rows with total_visits [100,120,150] and target_visits
\* [100,100,100] give totalVisits 370 and targetAchievement 123.33.
C3_TargetAchievement ==
    (kpiPc = "done" /\ NoNullRow /\ analytics # <<>>) =>
        LET totalVisits == SumUpTo(Len(analytics), "total_visits")
            totalTarget == SumUpTo(Len(analytics), "target_visits")
        IN  /\ IF totalTarget > 0
               THEN IsRounded(kpis.targetAchievement, totalVisits * 10000, totalTarget)
               ELSE kpis.targetAchievement = 0
            /\ analytics = ExampleThree =>
                  kpis.totalVisits = 370 /\ kpis.targetAchievement = 12333

C3_Witness ==
    /\ kpiPc = "done"
    /\ analytics = ExampleThree
    /\ kpis.targetAchievement = 12333

\* C4: when an exception occurs while calculateKPIs folds the rows (a row is
\* null), state.kpis ends as the all-zero summary, never a partly computed one,
\* and the exception does not leave calculateKPIs.
C4_FailsClosed ==
    (kpiPc = "done" /\ ~NoNullRow) => (kpis = ZeroKpis /\ ~kpiThrown)

C4_Witness ==
    /\ kpiPc = "done"
    /\ analytics = ExampleNullLast
    /\ kpis = ZeroKpis

-----------------------------------------------------------------------------
(* Properties of validateTrackingData (SpecTrack) *)

\* A point the claim says is discarded.
Discarded(p) ==
    \/ p.latitude = Absent
    \/ p.longitude = Absent
    \/ p.latitude[1] < 0 - 90
    \/ p.latitude[1] > 90
    \/ p.longitude[1] < 0 - 180
    \/ p.longitude[1] > 180
    \/ (p.accuracy # Absent /\ p.accuracy[1] > 1000)

Retained(p) == ~Discarded(p)

\* C5: validateTrackingData returns exactly the input points, in input order,
\* that are not discarded; a point is discarded iff its latitude or longitude is
\* absent, or out of [-90, 90] x [-180, 180], or its accuracy is present and
\* greater than 1000; a point whose latitude or longitude is 0 is retained.
C5_ExactSubsequence ==
    trackPc = "done" => trackingData = SelectSeq(trackInput, Retained)

-----------------------------------------------------------------------------
(* Properties of the RealTimeNotifications connection (SpecNotif) *)

\* Nothing of the component is pending: initialisation is over, no gateway call
\* is in flight and no reconnection timer is set.
Quiescent ==
    /\ initPc = "done"
    /\ loadsInFlight = 0
    /\ conn.timers = <<>>

\* C6: when the bus connection has dropped and does not recover, reconnection
\* stops after at most 5 attempts and connectionStatus becomes and stays
\* 'error': once the bus is down and no reconnection is pending any more, the
\* status is 'error', not 'connecting' or 'disconnected'.
C6_GivesUpWithError ==
    (busDown /\ Quiescent) => (conn.status = "error" /\ conn.attempts <= 5)

\* C7: reconnectAttempts never exceeds maxReconnectAttempts (5), and between two
\* bus 'connect' events at most 5 reconnection timers are scheduled, whatever
\* the sequence of disconnect, error and timer-expiry events.
C7_AttemptsBounded ==
    /\ conn.attempts <= 5
    /\ conn.scheduled <= 5
    /\ Len(conn.timers) <= 5 * (connects + 1)

C7_Witness ==
    /\ busDown
    /\ conn.attempts = 5
    /\ conn.scheduled = 5
    /\ conn.status = "error"
    /\ conn.listeners > 1

\* The delays stated for attempts 1 to 5.
ClaimedDelay == <<1000, 2000, 4000, 8000, 16000>>

\* C8: the reconnection delay is 1000 ms for the first attempt after a drop,
\* doubles for each following attempt and never exceeds 30000 ms: 1000, 2000,
\* 4000, 8000, 16000 ms for attempts 1 to 5.
C8_BackoffFromBase ==
    busDown =>
      \A i \in 1..Len(conn.timers) :
        /\ conn.timers[i].attempt \in 1..5
        /\ conn.timers[i].delay = ClaimedDelay[conn.timers[i].attempt]
        /\ conn.timers[i].delay <= 30000

\* C9: connectionStatus follows disconnected -> connecting -> connected ->
\* disconnected: it becomes 'connected' only from 'connecting' (or 'connected'),
\* and a bus 'disconnect' event always moves it to 'disconnected'.
C9_StateMachine ==
    [][/\ conn'.status = "connected" => conn.status \in {"connecting", "connected"}
       /\ BusDisconnect => conn'.status = "disconnected"]_vars

-----------------------------------------------------------------------------
(* Properties of the dashboard's analytics loading (SpecDash) *)

\* A call was answered with rows after the answer to a call issued later had
\* arrived (so the later call was issued while the earlier one was in flight).
Overtaken ==
    /\ lastAnswer.id > 0
    /\ lastAnswer.id < newestAnswer.id

\* C10: overlapping loadAnalytics calls are not ordered: when a second call is
\* issued before the first has resolved and the first resolves last,
\* state.analytics and state.kpis hold the rows of the earlier (stale) call,
\* not those of the latest call issued.
C10_StaleResponseWins ==
    Overtaken =>
        /\ analytics = lastAnswer.rows
        /\ kpis = IF analytics = <<>> THEN ZeroKpis ELSE ComputeKpis(analytics)

C10_Witness ==
    /\ Overtaken
    /\ requests = {}
    /\ newestAnswer.id = issued
    /\ lastAnswer.rows = ExampleSingle
    /\ newestAnswer.rows = ExampleDoubling
    /\ lastAnswer.period_type = "monthly"
    /\ newestAnswer.period_type = "weekly"
    /\ dash.periodType = "weekly"
    /\ analytics = ExampleSingle
    /\ kpis.totalVisits = 10

-----------------------------------------------------------------------------
(* Properties of loadInitialData (SpecInitialData) and of the date range check
   (SpecReload) *)

\* One of the three loads of loadInitialData settled in this step.
Settled(load, outcome) ==
    /\ dash.loads[load] = "pending"
    /\ dash'.loads[load] = outcome

\* C14: in loadInitialData the failure of one of the three parallel loads
\* (analytics, filters, real-time snapshot) does not abort the other two: a
\* failing load leaves the others as they are, each load that succeeds stores
\* its result, and when the last one has settled loadInitialData returns
\* normally (refreshData shows its success note) with state.loading false.
C14_LoadsIndependent ==
    [][/\ \A load \in {"analytics", "filters", "realtime"} :
             Settled(load, "failed") =>
                 \A other \in {"analytics", "filters", "realtime"} \ {load} :
                     dash'.loads[other] = dash.loads[other]
       /\ Settled("analytics", "ok") => analytics' = lastAnswer'.rows
       /\ Settled("filters", "ok") => dash'.filtersLoaded
       /\ Settled("realtime", "ok") => dash'.rtLoaded /\ dash'.rtConnected
       /\ (initPending # {} /\ initPending' = {}) =>
             /\ ~dash'.loading
             /\ dash.refreshing => dash'.note = "Dashboard data refreshed successfully"
      ]_vars

C14_Witness ==
    /\ initPending = {}
    /\ dash.loads = [analytics |-> "failed", filters |-> "ok", realtime |-> "ok"]
    /\ dash.error = "gateway"
    /\ dash.filtersLoaded
    /\ dash.rtLoaded
    /\ ~dash.loading
    /\ dash.note = "Dashboard data refreshed successfully"

\* C15: while dateFrom is later than dateTo no get_analytics_data call is
\* issued: a date handler that makes the range invalid shows the warning and
\* returns, and loadAnalytics, reached through onPeriodTypeChange or
\* refreshData, fails on the range before it calls the gateway.
C15_NoCallOnInvalidRange ==
    [][/\ dash'.dateFrom > dash'.dateTo =>
             /\ issued' = issued
             /\ requests' \subseteq requests
       /\ (dash'.dateFrom > dash'.dateTo /\ <<dash'.dateFrom, dash'.dateTo>> # <<dash.dateFrom, dash.dateTo>>) =>
             dash'.note = "Start date cannot be after end date"
       /\ ((onPeriodTypeChange \/ refreshData) /\ dash.dateFrom > dash.dateTo) =>
             dash'.error = "range"
      ]_vars

C15_Witness ==
    /\ dash.dateFrom > dash.dateTo
    /\ dash.error = "range"
    /\ dash.note = "Failed to update period type"
    /\ dash.loads.analytics = "failed"
    /\ initPending = {}
    /\ requests = {}

-----------------------------------------------------------------------------
(* Properties of the RealTimeNotifications timers and unmount (SpecLife) *)

\* C11: once cleanup has run, every interval and timeout of the component
\* (periodic refresh, reconnection, debounce, performance logging,
\* auto-mark-read) is cancelled and the bus topics are unsubscribed, so no
\* callback of the component runs after unmount.
C11_TornDown ==
    unmounted =>
        /\ ~conn.refreshActive
        /\ conn.timers = <<>>
        /\ ~debounce
        /\ ~PerformanceLogging
        /\ inbox.autoMark = <<>>
        /\ ~conn.subscribed
        /\ ranAfter = "none"

-----------------------------------------------------------------------------
(* Properties of the RealTimeNotifications settings and push messages       *)
(* (SpecPush)                                                                *)

\* The toggles a message belongs to: those of the notifications it carries, or
\* the one of its topic.
CategoriesOf(msg) ==
    CASE msg.topic = "sales_rep_notifications" /\ msg.type = "new_notification" ->
            {msg.items[1].category}
      [] msg.topic = "sales_rep_notifications" /\ msg.type = "bulk_notification" ->
            {msg.items[i].category : i \in 1..Len(msg.items)}
      [] msg.topic = "visit_updates" -> {"visitCompleted"}
      [] msg.topic = "target_alerts" -> {"targetAchieved"}
      [] msg.topic = "system_notifications" -> {"systemAlert"}
      [] OTHER -> {}

\* Every toggle the message belongs to is disabled.
Muted(msg) ==
    /\ CategoriesOf(msg) # {}
    /\ CategoriesOf(msg) \cap settings.notificationTypes = {}

\* This step delivers a bus message.
Delivers == pushed' = pushed + 1

\* C16: the per-category toggles are applied to every incoming push message: a
\* message whose toggle is disabled adds no entry to state.notifications and is
\* not shown, on any of the four topics.
C16_TogglesApplied ==
    [][(Delivers /\ Muted(lastPush'[1])) =>
          /\ inbox'.notifications = inbox.notifications
          /\ inbox'.shown = inbox.shown]_vars

\* The message types handleBusMessage lists.
KnownTypes == {"new_notification", "notification_read", "bulk_notification"}

\* C17: a message on sales_rep_notifications whose type is none of
\* new_notification, notification_read, bulk_notification is ignored:
\* notifications, unreadCount and every other state field stay unchanged and
\* nothing is shown.
C17_UnknownTypeIgnored ==
    [][(/\ Delivers
        /\ lastPush'[1].topic = "sales_rep_notifications"
        /\ lastPush'[1].type \notin KnownTypes) =>
          UNCHANGED <<inbox, writes, bulkWrites, settings, conn, initPc, loadsInFlight>>]_vars

C17_Witness ==
    /\ pushed = 2
    /\ lastPush # <<>>
    /\ lastPush[1].topic = "sales_rep_notifications"
    /\ lastPush[1].type = "typing"
    /\ Len(inbox.notifications) = 1
    /\ inbox.unreadCount = 1
    /\ inbox.shown = 1

\* C19: at startup the settings saved in local storage are read first and the
\* server's settings then overwrite them; when the server's settings call
\* fails, the values saved in local storage remain in effect, not the defaults.
C19_LocalStorageFallback ==
    initPc \notin {"constructed", "settings"} =>
        /\ (~backend.settingsFail /\ backend.settings # Absent) =>
              settings = backend.settings[1]
        /\ (backend.settingsFail /\ localStore # Absent) =>
              settings = localStore[1]

-----------------------------------------------------------------------------
(* Properties of the DailyVisitTracker loads and timers (SpecTracker) *)

\* C12: when the tracker unmounts, its 30-second auto-refresh interval and any
\* running elapsed-time timer are cleared, so no loadVisits call and no
\* elapsedTime increment happens after unmount.
C12_TrackerTimersCleared ==
    trkPc = "unmounted" =>
        /\ ~trk.refreshing
        /\ trk.ticking = 0
        /\ trk.ranAfter = "none"

\* C13: no failure leaves a lifecycle, timer or event callback unhandled: a
\* gateway failure raised inside a hook, a setInterval callback or a UI handler
\* is caught and turned into state and a notification, never an unhandled
\* promise rejection.
C13_NoUnhandledRejection == ~trk.unhandled

\* The fields of the tracking state, with the intervals that run.
Tracking(t) == <<t.isTracking, t.currentVisit, t.elapsedTime, t.timer, t.ticking>>

\* The loadVisits call that startVisit issues after its write.
ReloadAfterStart == [kind |-> "loadVisits", caller |-> "start", visit |-> 0]

\* The write of a startVisit call settled in this step.
StartWriteSettled(c) ==
    /\ c \in trkCalls
    /\ c \notin trkCalls'
    /\ c.kind = "write"
    /\ c.caller = "start"

\* C24: in startVisit, when the gateway write fails the tracking state is
\* unchanged (isTracking, currentVisit, elapsedTime and timer keep their
\* values, no timer is started) and an error notification is shown; the
\* tracking state is set only after the write has succeeded.
C24_FailedStartChangesNothing ==
    [][/\ \A c \in trkCalls :
             (StartWriteSettled(c) /\ ReloadAfterStart \notin trkCalls') =>
                 /\ Tracking(trk') = Tracking(trk)
                 /\ "Error starting visit" \in trk'.notes
       /\ (trk'.ticking > trk.ticking \/ (trk'.isTracking /\ ~trk.isTracking)) =>
             \E c \in trkCalls : StartWriteSettled(c) /\ ReloadAfterStart \in trkCalls'
      ]_vars

C24_Witness ==
    /\ trkCalls = {}
    /\ trk.notes = {"Visit started successfully", "Error starting visit"}
    /\ trk.isTracking
    /\ trk.currentVisit = 1
    /\ trk.ticking = 1
    /\ trk.elapsedTime = 1

\* C25: at most one elapsed-time interval is active at any time, after any
\* sequence of startVisit, completeVisit, cancelVisit and stopTracking calls
\* (also startVisit while another visit is tracked), and it is the one whose
\* id state.timer holds, so that stopTracking leaves no timer running.
C25_OneElapsedTimer ==
    /\ trk.ticking <= 1
    /\ ~trk.timer => trk.ticking = 0

-----------------------------------------------------------------------------
(* Properties of the connection flags (SpecNotif), the map loads (SpecMaps)  *)
(* and the unread count (SpecUnread)                                         *)

\* C27: isConnected is true only while connectionStatus is 'connected': a
\* status of 'disconnected', 'connecting' or 'error' implies isConnected false.
C27_ConnectedOnlyWhenStatusConnected ==
    conn.status \in {"disconnected", "connecting", "error"} => ~conn.isConnected

\* C28: each bus 'disconnect' event increments reconnectAttempts by one and
\* schedules at most one reconnection timer, also after earlier reconnections
\* have run connectToBus again; at most one reconnection timer is pending at
\* any time, the one held in reconnectTimeout.
C28_OneReconnectPerDisconnect ==
    [][BusDisconnect =>
          /\ conn'.attempts <= conn.attempts + 1
          /\ Len(conn'.timers) <= Len(conn.timers) + 1
          /\ Len(conn'.timers) <= 1
          /\ \A i \in 1..Len(conn'.timers) : conn'.timers[i].held]_vars

\* C30: when the map is loaded and all four gateway loads of a
\* loadInitialData call succeed, the call completes without setting
\* state.error and without an error notification, the current view is
\* rendered, and isLoading is false at the end.
C30_MapLoadSucceeds ==
    maps.last.allOk =>
        /\ ~maps.last.errorSet
        /\ ~maps.last.notified
        /\ maps.last.rendered
        /\ ~maps.last.isLoading

\* C26: whenever no handler is mid-execution (and so in every state between
\* two steps), unreadCount equals the number of notifications that are not
\* read, after any sequence of loadNotifications, push messages, markAsRead
\* and markAllAsRead, also when a gateway call fails.
C26_UnreadCountMatches == inbox.unreadCount = Unread(inbox.notifications)

C26_Witness ==
    /\ writes = {}
    /\ bulkWrites = {}
    /\ loadsInFlight = 0
    /\ Len(inbox.notifications) = 3
    /\ inbox.unreadCount = 1
    /\ \E i \in 1..3 : inbox.notifications[i].id = 3 /\ inbox.notifications[i].is_read

-----------------------------------------------------------------------------
(* Properties of the InteractiveCharts chart instances (SpecCharts) *)

\* C18: after any sequence of createLineChart, createBarChart,
\* createDoughnutChart, createRadarChart, destroyChart and destroyAllCharts
\* calls, each canvas id has at most one chart that was created and not yet
\* destroyed.
C18_OneLiveChartPerCanvas ==
    \A canvasId \in Canvases : Cardinality(LiveOn(canvasId)) <= 1

-----------------------------------------------------------------------------
(* Properties of calculateVisitProgress (SpecProgress) *)

\* The fraction x is min(elapsed / expected * 100, 95).
IsCappedRatio(x, elapsed, expected) ==
    /\ x.d > 0
    /\ IF elapsed * 100 >= 95 * expected
       THEN x.n = 95 * x.d
       ELSE x.n * expected = elapsed * 100 * x.d

\* The minutes a visit is expected to last.
ExpectedMinutes(visit) == IF visit.duration = 0 THEN DefaultDuration ELSE visit.duration

Overdue(visit, now) ==
    /\ visit.state = "planned"
    /\ visit.planned_time # Absent
    /\ now > visit.planned_time[1]

\* What the function returns for the visits that are not in progress: 100 for
\* a completed visit, 0 for a cancelled one, -1 for a planned visit whose
\* planned time is in the past, and 0 for the others.
RestingCases ==
    /\ progVisit.state = "completed" => progress = Whole(100)
    /\ progVisit.state = "cancelled" => progress = Whole(0)
    /\ Overdue(progVisit, progNow) => progress = Whole(0 - 1)
    /\ (progVisit.state \in {"planned", "rescheduled"} /\ ~Overdue(progVisit, progNow)) =>
          progress = Whole(0)

\* C20 as stated: calculateVisitProgress returns 100 for a completed visit, 0
\* for a cancelled visit, min(elapsed_minutes / expected_duration_minutes * 100,
\* 95) of the minutes elapsed since its actual start for every in_progress
\* visit, -1 for a planned visit whose planned time is in the past, and 0
\* otherwise.
C20_EveryRunningVisit ==
    progPc = "done" =>
        /\ RestingCases
        /\ progVisit.state = "in_progress" =>
              /\ progVisit.actual_start_time # Absent
              /\ IsCappedRatio(progress, progNow - progVisit.actual_start_time[1],
                               ExpectedMinutes(progVisit))

\* C20, amended: the in_progress case applies to the visits that have an
\* actual start time (there it is never more than 95); an in_progress visit
\* without one gets 0, like the other remaining visits.
C20_RunningVisitWithStart ==
    progPc = "done" =>
        /\ RestingCases
        /\ (progVisit.state = "in_progress" /\ progVisit.actual_start_time # Absent) =>
              /\ IsCappedRatio(progress, progNow - progVisit.actual_start_time[1],
                               ExpectedMinutes(progVisit))
              /\ progress.n <= 95 * progress.d
        /\ (progVisit.state = "in_progress" /\ progVisit.actual_start_time = Absent) =>
              progress = Whole(0)

C20_Witness ==
    /\ progPc = "done"
    /\ progVisit.state = "in_progress"
    /\ progVisit.actual_start_time = Absent
    /\ progVisit.duration = 1
    /\ progNow = DefaultDuration
    /\ progress = Whole(0)

-----------------------------------------------------------------------------
(* Properties of getVisitTimeStatus (SpecStatus) *)

\* C21: getVisitTimeStatus classifies a completed visit by d = actual start
\* minus planned time in minutes as 'early' when d <= -5, 'on-time' when
\* -5 < d <= 15 and 'late' when d > 15, and a planned visit by e = now minus
\* planned time in minutes as 'overdue' when e > 15, 'upcoming' when
\* -30 < e <= 15 and 'scheduled' when e <= -30.
C21_TimeStatus ==
    (progPc = "done" /\ progVisit.planned_time # Absent) =>
        /\ (progVisit.state = "completed" /\ progVisit.actual_start_time # Absent) =>
              LET d == progVisit.actual_start_time[1] - progVisit.planned_time[1]
              IN  /\ d <= -5 => timeStatus = "early"
                  /\ (-5 < d /\ d <= 15) => timeStatus = "on-time"
                  /\ d > 15 => timeStatus = "late"
        /\ progVisit.state = "planned" =>
              LET e == progNow - progVisit.planned_time[1]
              IN  /\ e > 15 => timeStatus = "overdue"
                  /\ (-30 < e /\ e <= 15) => timeStatus = "upcoming"
                  /\ e <= -30 => timeStatus = "scheduled"

C21_Witness ==
    /\ progPc = "done"
    /\ progVisit.state = "completed"
    /\ progVisit.planned_time = Some(PlannedMinute)
    /\ progVisit.actual_start_time = Some(PlannedMinute - 5)
    /\ timeStatus = "early"

-----------------------------------------------------------------------------
(* Properties of the dashboard's filter handlers (SpecDash, SpecReload) *)

\* The gateway answered call r with rows in this step.
AnsweredWithRows(r) ==
    /\ r \in requests
    /\ r \notin requests'
    /\ lastAnswer'.id = r.id

\* C22: a period-type change reloads the analytics and updates the charts:
\* when the call of onPeriodTypeChange is answered with at least one row, the
\* charts have been re-created from the new rows when the handler completes.
C22_ChartsRecreated ==
    [][\A r \in requests :
          (r.caller = "period" /\ AnsweredWithRows(r) /\ lastAnswer'.rows # <<>>) =>
              dash'.charts = lastAnswer'.rows]_vars

\* C23: once every loadAnalytics call started by a filter change has settled,
\* with success or with failure, state.loading is false again: the mounted
\* dashboard is never in the loading state with no request in flight.
C23_LoadingReset ==
    (dashPc = "mounted" /\ requests = {} /\ initPending = {}) => ~dash.loading

-----------------------------------------------------------------------------
(* Properties of refreshData (SpecInitialData) *)

\* C29: refreshData shows 'Dashboard data refreshed successfully' only when
\* the analytics reload succeeded: once its loadInitialData has returned, the
\* success note is on display only if the get_analytics_data call of that
\* reload succeeded.
C29_SuccessOnlyAfterReload ==
    (initPending = {} /\ dash.note = "Dashboard data refreshed successfully") =>
        dash.loads.analytics = "ok"

====
